---------------------------- MODULE Spec2Model ----------------------------
(***************************************************************************)
(* A model of the tree-walking lazy evaluator of nix-compiler.             *)
(*                                                                         *)
(* The evaluator of src/src/expr.rs is a set of mutually recursive         *)
(* visit_* methods that share a heap of reference-counted cells.  Here the *)
(* recursion is made explicit: `ctl` is the call that is about to run or   *)
(* the result that was just returned, and `stack` holds, for every call    *)
(* that is waiting for a callee, the place it resumes at and the locals it *)
(* still needs.  The heap is three tables of objects, addressed by their   *)
(* position (the model's stand-in for Rc pointer identity):                *)
(*   cells   Rc<RefCell<LazyNixValue>>   (NixVar)                          *)
(*   sets    Rc<RefCell<NixValue>> holding an AttrSet (the mutable values) *)
(*   scopes  Rc<Scope>                                                     *)
(* Immutable values (Int, Bool, String, List, Lambda, Builtin) are kept    *)
(* inline: no code path observes their pointer identity.                   *)
(*                                                                         *)
(* A NixBacktrace(span, parent) is modelled by its span alone (the number  *)
(* of the syntax node): the parent chain is diagnostic payload that no     *)
(* branch of the evaluator reads.                                          *)
(***************************************************************************)
EXTENDS Integers, Sequences, FiniteSets, TLC

VARIABLES
  prog,     \* the program being evaluated (a field name of Programs)
  cells,    \* the thunk cells
  sets,     \* the attribute sets: each a function from key to cell
  scopes,   \* the scopes: [vars |-> attribute set, parent |-> scope or 0]
  ctl,      \* the call about to run / the result being returned
  stack,    \* the waiting callers, innermost first
  evals,    \* per cell: how often its expression or closure was invoked
  asks,     \* per cell: how often resolve was called on it
  built,    \* the attribute sets whose constructing expression has returned
  forces,   \* how many times the host has forced a thunk of the result
  rootRes   \* <<>> until the root expression has returned, then <<its result>>,
            \* followed by the results of the calls the host made of it

vars == <<prog, cells, sets, scopes, ctl, stack, evals, asks, built, forces, rootRes>>

\* How many thunks the host forces after the root expression has returned.
MaxHostForces == 2

\* How many times the host calls the lambda the root expression returned.
MaxHostCalls == 2

\* How many calls of resolve_set fit on the stack of the process.
MaxDeep == 4

\* The parsed programs the evaluator is run on: one record per rnix syntax node,
\* numbered in source order (the n-th record is node n), so that a node's number
\* also serves as its span.
Ast == <<
  \* PLetThrow (nodes 1..7):  let x = throw "boom"; in 1
    [k |-> "LetIn", entries |-> <<2>>, body |-> 7]
  , [k |-> "AttrpathValue", path |-> <<3>>, value |-> 4]
  , [k |-> "Attr", name |-> "x"]
  , [k |-> "Apply", fn |-> 5, arg |-> 6]
  , [k |-> "Ident", name |-> "throw"]
  , [k |-> "Str", v |-> "boom"]
  , [k |-> "Int", v |-> 1]
  \* PLetInf (nodes 8..12):  let inf = inf; in 1
  , [k |-> "LetIn", entries |-> <<9>>, body |-> 12]
  , [k |-> "AttrpathValue", path |-> <<10>>, value |-> 11]
  , [k |-> "Attr", name |-> "inf"]
  , [k |-> "Ident", name |-> "inf"]
  , [k |-> "Int", v |-> 1]
  \* PLetSelf (nodes 13..17):  let x = x; in x
  , [k |-> "LetIn", entries |-> <<14>>, body |-> 17]
  , [k |-> "AttrpathValue", path |-> <<15>>, value |-> 16]
  , [k |-> "Attr", name |-> "x"]
  , [k |-> "Ident", name |-> "x"]
  , [k |-> "Ident", name |-> "x"]
  \* PShadowAdd (nodes 18..29):  let a = 1; in (let a = 2; in a) + a
  , [k |-> "LetIn", entries |-> <<19>>, body |-> 22]
  , [k |-> "AttrpathValue", path |-> <<20>>, value |-> 21]
  , [k |-> "Attr", name |-> "a"]
  , [k |-> "Int", v |-> 1]
  , [k |-> "BinOp", op |-> "Add", lhs |-> 23, rhs |-> 29]
  , [k |-> "Paren", expr |-> 24]
  , [k |-> "LetIn", entries |-> <<25>>, body |-> 28]
  , [k |-> "AttrpathValue", path |-> <<26>>, value |-> 27]
  , [k |-> "Attr", name |-> "a"]
  , [k |-> "Int", v |-> 2]
  , [k |-> "Ident", name |-> "a"]
  , [k |-> "Ident", name |-> "a"]
  \* PShadowEq (nodes 30..41):  let a = 1; in (let a = 2; in a) == a
  , [k |-> "LetIn", entries |-> <<31>>, body |-> 34]
  , [k |-> "AttrpathValue", path |-> <<32>>, value |-> 33]
  , [k |-> "Attr", name |-> "a"]
  , [k |-> "Int", v |-> 1]
  , [k |-> "BinOp", op |-> "Equal", lhs |-> 35, rhs |-> 41]
  , [k |-> "Paren", expr |-> 36]
  , [k |-> "LetIn", entries |-> <<37>>, body |-> 40]
  , [k |-> "AttrpathValue", path |-> <<38>>, value |-> 39]
  , [k |-> "Attr", name |-> "a"]
  , [k |-> "Int", v |-> 2]
  , [k |-> "Ident", name |-> "a"]
  , [k |-> "Ident", name |-> "a"]
  \* PShadowList (nodes 42..53):  let a = 1; in [ (let a = 2; in a) a ]
  , [k |-> "LetIn", entries |-> <<43>>, body |-> 46]
  , [k |-> "AttrpathValue", path |-> <<44>>, value |-> 45]
  , [k |-> "Attr", name |-> "a"]
  , [k |-> "Int", v |-> 1]
  , [k |-> "List", items |-> <<47, 53>>]
  , [k |-> "Paren", expr |-> 48]
  , [k |-> "LetIn", entries |-> <<49>>, body |-> 52]
  , [k |-> "AttrpathValue", path |-> <<50>>, value |-> 51]
  , [k |-> "Attr", name |-> "a"]
  , [k |-> "Int", v |-> 2]
  , [k |-> "Ident", name |-> "a"]
  , [k |-> "Ident", name |-> "a"]
  \* PWithLet (nodes 54..67):  let s = { a = 1; }; in with s; let b = 2; in s
  , [k |-> "LetIn", entries |-> <<55>>, body |-> 61]
  , [k |-> "AttrpathValue", path |-> <<56>>, value |-> 57]
  , [k |-> "Attr", name |-> "s"]
  , [k |-> "AttrSet", rec |-> FALSE, entries |-> <<58>>]
  , [k |-> "AttrpathValue", path |-> <<59>>, value |-> 60]
  , [k |-> "Attr", name |-> "a"]
  , [k |-> "Int", v |-> 1]
  , [k |-> "With", ns |-> 62, body |-> 63]
  , [k |-> "Ident", name |-> "s"]
  , [k |-> "LetIn", entries |-> <<64>>, body |-> 67]
  , [k |-> "AttrpathValue", path |-> <<65>>, value |-> 66]
  , [k |-> "Attr", name |-> "b"]
  , [k |-> "Int", v |-> 2]
  , [k |-> "Ident", name |-> "s"]
  \* PRecAB (nodes 68..76):  rec { a = 1; b = a; }.b
  , [k |-> "Select", expr |-> 69, path |-> <<76>>, default |-> 0]
  , [k |-> "AttrSet", rec |-> TRUE, entries |-> <<70, 73>>]
  , [k |-> "AttrpathValue", path |-> <<71>>, value |-> 72]
  , [k |-> "Attr", name |-> "a"]
  , [k |-> "Int", v |-> 1]
  , [k |-> "AttrpathValue", path |-> <<74>>, value |-> 75]
  , [k |-> "Attr", name |-> "b"]
  , [k |-> "Ident", name |-> "a"]
  , [k |-> "Attr", name |-> "b"]
  \* PRecBA (nodes 77..85):  rec { b = a; a = 1; }.b
  , [k |-> "Select", expr |-> 78, path |-> <<85>>, default |-> 0]
  , [k |-> "AttrSet", rec |-> TRUE, entries |-> <<79, 82>>]
  , [k |-> "AttrpathValue", path |-> <<80>>, value |-> 81]
  , [k |-> "Attr", name |-> "b"]
  , [k |-> "Ident", name |-> "a"]
  , [k |-> "AttrpathValue", path |-> <<83>>, value |-> 84]
  , [k |-> "Attr", name |-> "a"]
  , [k |-> "Int", v |-> 1]
  , [k |-> "Attr", name |-> "b"]
  \* PRecAdd (nodes 86..96):  rec { a = 1; b = a + 1; }.b
  , [k |-> "Select", expr |-> 87, path |-> <<96>>, default |-> 0]
  , [k |-> "AttrSet", rec |-> TRUE, entries |-> <<88, 91>>]
  , [k |-> "AttrpathValue", path |-> <<89>>, value |-> 90]
  , [k |-> "Attr", name |-> "a"]
  , [k |-> "Int", v |-> 1]
  , [k |-> "AttrpathValue", path |-> <<92>>, value |-> 93]
  , [k |-> "Attr", name |-> "b"]
  , [k |-> "BinOp", op |-> "Add", lhs |-> 94, rhs |-> 95]
  , [k |-> "Ident", name |-> "a"]
  , [k |-> "Int", v |-> 1]
  , [k |-> "Attr", name |-> "b"]
  \* PLetInherit (nodes 97..105):  let a = 1; in (let inherit a; in a)
  , [k |-> "LetIn", entries |-> <<98>>, body |-> 101]
  , [k |-> "AttrpathValue", path |-> <<99>>, value |-> 100]
  , [k |-> "Attr", name |-> "a"]
  , [k |-> "Int", v |-> 1]
  , [k |-> "Paren", expr |-> 102]
  , [k |-> "LetIn", entries |-> <<103>>, body |-> 105]
  , [k |-> "Inherit", from |-> 0, attrs |-> <<104>>]
  , [k |-> "Attr", name |-> "a"]
  , [k |-> "Ident", name |-> "a"]
  \* PRecInherit (nodes 106..114):  let a = 1; in rec { inherit a; }.a
  , [k |-> "LetIn", entries |-> <<107>>, body |-> 110]
  , [k |-> "AttrpathValue", path |-> <<108>>, value |-> 109]
  , [k |-> "Attr", name |-> "a"]
  , [k |-> "Int", v |-> 1]
  , [k |-> "Select", expr |-> 111, path |-> <<114>>, default |-> 0]
  , [k |-> "AttrSet", rec |-> TRUE, entries |-> <<112>>]
  , [k |-> "Inherit", from |-> 0, attrs |-> <<113>>]
  , [k |-> "Attr", name |-> "a"]
  , [k |-> "Attr", name |-> "a"]
  \* PSetInherit (nodes 115..123):  let a = 1; in { inherit a; }.a
  , [k |-> "LetIn", entries |-> <<116>>, body |-> 119]
  , [k |-> "AttrpathValue", path |-> <<117>>, value |-> 118]
  , [k |-> "Attr", name |-> "a"]
  , [k |-> "Int", v |-> 1]
  , [k |-> "Select", expr |-> 120, path |-> <<123>>, default |-> 0]
  , [k |-> "AttrSet", rec |-> FALSE, entries |-> <<121>>]
  , [k |-> "Inherit", from |-> 0, attrs |-> <<122>>]
  , [k |-> "Attr", name |-> "a"]
  , [k |-> "Attr", name |-> "a"]
  \* PInheritFrom (nodes 124..137):  let s = { x = 1; }; in (let inherit (s) x; in x)
  , [k |-> "LetIn", entries |-> <<125>>, body |-> 131]
  , [k |-> "AttrpathValue", path |-> <<126>>, value |-> 127]
  , [k |-> "Attr", name |-> "s"]
  , [k |-> "AttrSet", rec |-> FALSE, entries |-> <<128>>]
  , [k |-> "AttrpathValue", path |-> <<129>>, value |-> 130]
  , [k |-> "Attr", name |-> "x"]
  , [k |-> "Int", v |-> 1]
  , [k |-> "Paren", expr |-> 132]
  , [k |-> "LetIn", entries |-> <<133>>, body |-> 137]
  , [k |-> "Inherit", from |-> 134, attrs |-> <<136>>]
  , [k |-> "InheritFrom", expr |-> 135]
  , [k |-> "Ident", name |-> "s"]
  , [k |-> "Attr", name |-> "x"]
  , [k |-> "Ident", name |-> "x"]
  \* PSetEq (nodes 138..146):  { a = 1; } == { a = 1; }
  , [k |-> "BinOp", op |-> "Equal", lhs |-> 139, rhs |-> 143]
  , [k |-> "AttrSet", rec |-> FALSE, entries |-> <<140>>]
  , [k |-> "AttrpathValue", path |-> <<141>>, value |-> 142]
  , [k |-> "Attr", name |-> "a"]
  , [k |-> "Int", v |-> 1]
  , [k |-> "AttrSet", rec |-> FALSE, entries |-> <<144>>]
  , [k |-> "AttrpathValue", path |-> <<145>>, value |-> 146]
  , [k |-> "Attr", name |-> "a"]
  , [k |-> "Int", v |-> 1]
  \* PSetNe (nodes 147..155):  { a = 1; } != { a = 1; }
  , [k |-> "BinOp", op |-> "NotEqual", lhs |-> 148, rhs |-> 152]
  , [k |-> "AttrSet", rec |-> FALSE, entries |-> <<149>>]
  , [k |-> "AttrpathValue", path |-> <<150>>, value |-> 151]
  , [k |-> "Attr", name |-> "a"]
  , [k |-> "Int", v |-> 1]
  , [k |-> "AttrSet", rec |-> FALSE, entries |-> <<153>>]
  , [k |-> "AttrpathValue", path |-> <<154>>, value |-> 155]
  , [k |-> "Attr", name |-> "a"]
  , [k |-> "Int", v |-> 1]
  \* PSameSetEq (nodes 156..165):  let s = { a = 1; }; in s == s
  , [k |-> "LetIn", entries |-> <<157>>, body |-> 163]
  , [k |-> "AttrpathValue", path |-> <<158>>, value |-> 159]
  , [k |-> "Attr", name |-> "s"]
  , [k |-> "AttrSet", rec |-> FALSE, entries |-> <<160>>]
  , [k |-> "AttrpathValue", path |-> <<161>>, value |-> 162]
  , [k |-> "Attr", name |-> "a"]
  , [k |-> "Int", v |-> 1]
  , [k |-> "BinOp", op |-> "Equal", lhs |-> 164, rhs |-> 165]
  , [k |-> "Ident", name |-> "s"]
  , [k |-> "Ident", name |-> "s"]
  \* PListEq (nodes 166..170):  [ 1 ] == [ 1 ]
  , [k |-> "BinOp", op |-> "Equal", lhs |-> 167, rhs |-> 169]
  , [k |-> "List", items |-> <<168>>]
  , [k |-> "Int", v |-> 1]
  , [k |-> "List", items |-> <<170>>]
  , [k |-> "Int", v |-> 1]
  \* PIntEq (nodes 171..173):  1 == 1
  , [k |-> "BinOp", op |-> "Equal", lhs |-> 172, rhs |-> 173]
  , [k |-> "Int", v |-> 1]
  , [k |-> "Int", v |-> 1]
  \* PIntNe (nodes 174..176):  1 != 2
  , [k |-> "BinOp", op |-> "NotEqual", lhs |-> 175, rhs |-> 176]
  , [k |-> "Int", v |-> 1]
  , [k |-> "Int", v |-> 2]
  \* PPatExtra (nodes 177..190):  ({a, b}: a) { a = 1; b = 2; c = 3; }
  , [k |-> "Apply", fn |-> 178, arg |-> 181]
  , [k |-> "Paren", expr |-> 179]
  , [k |-> "Lambda", param |-> [pk |-> "Pattern", entries |-> <<[name |-> "a", default |-> 0], [name |-> "b", default |-> 0]>>, ellipsis |-> FALSE, bind |-> ""], body |-> 180]
  , [k |-> "Ident", name |-> "a"]
  , [k |-> "AttrSet", rec |-> FALSE, entries |-> <<182, 185, 188>>]
  , [k |-> "AttrpathValue", path |-> <<183>>, value |-> 184]
  , [k |-> "Attr", name |-> "a"]
  , [k |-> "Int", v |-> 1]
  , [k |-> "AttrpathValue", path |-> <<186>>, value |-> 187]
  , [k |-> "Attr", name |-> "b"]
  , [k |-> "Int", v |-> 2]
  , [k |-> "AttrpathValue", path |-> <<189>>, value |-> 190]
  , [k |-> "Attr", name |-> "c"]
  , [k |-> "Int", v |-> 3]
  \* PPatEllipsis (nodes 191..204):  ({a, b, ...}: a) { a = 1; b = 2; c = 3; }
  , [k |-> "Apply", fn |-> 192, arg |-> 195]
  , [k |-> "Paren", expr |-> 193]
  , [k |-> "Lambda", param |-> [pk |-> "Pattern", entries |-> <<[name |-> "a", default |-> 0], [name |-> "b", default |-> 0]>>, ellipsis |-> TRUE, bind |-> ""], body |-> 194]
  , [k |-> "Ident", name |-> "a"]
  , [k |-> "AttrSet", rec |-> FALSE, entries |-> <<196, 199, 202>>]
  , [k |-> "AttrpathValue", path |-> <<197>>, value |-> 198]
  , [k |-> "Attr", name |-> "a"]
  , [k |-> "Int", v |-> 1]
  , [k |-> "AttrpathValue", path |-> <<200>>, value |-> 201]
  , [k |-> "Attr", name |-> "b"]
  , [k |-> "Int", v |-> 2]
  , [k |-> "AttrpathValue", path |-> <<203>>, value |-> 204]
  , [k |-> "Attr", name |-> "c"]
  , [k |-> "Int", v |-> 3]
  \* PPatDefaultAdd (nodes 205..215):  ({a ? 10, b}: a + b) { b = 5; }
  , [k |-> "Apply", fn |-> 206, arg |-> 212]
  , [k |-> "Paren", expr |-> 207]
  , [k |-> "Lambda", param |-> [pk |-> "Pattern", entries |-> <<[name |-> "a", default |-> 208], [name |-> "b", default |-> 0]>>, ellipsis |-> FALSE, bind |-> ""], body |-> 209]
  , [k |-> "Int", v |-> 10]
  , [k |-> "BinOp", op |-> "Add", lhs |-> 210, rhs |-> 211]
  , [k |-> "Ident", name |-> "a"]
  , [k |-> "Ident", name |-> "b"]
  , [k |-> "AttrSet", rec |-> FALSE, entries |-> <<213>>]
  , [k |-> "AttrpathValue", path |-> <<214>>, value |-> 215]
  , [k |-> "Attr", name |-> "b"]
  , [k |-> "Int", v |-> 5]
  \* PPatDefault (nodes 216..224):  ({a ? 10, b}: a) { b = 5; }
  , [k |-> "Apply", fn |-> 217, arg |-> 221]
  , [k |-> "Paren", expr |-> 218]
  , [k |-> "Lambda", param |-> [pk |-> "Pattern", entries |-> <<[name |-> "a", default |-> 219], [name |-> "b", default |-> 0]>>, ellipsis |-> FALSE, bind |-> ""], body |-> 220]
  , [k |-> "Int", v |-> 10]
  , [k |-> "Ident", name |-> "a"]
  , [k |-> "AttrSet", rec |-> FALSE, entries |-> <<222>>]
  , [k |-> "AttrpathValue", path |-> <<223>>, value |-> 224]
  , [k |-> "Attr", name |-> "b"]
  , [k |-> "Int", v |-> 5]
  \* PPatMissing (nodes 225..232):  ({a, b}: a) { b = 5; }
  , [k |-> "Apply", fn |-> 226, arg |-> 229]
  , [k |-> "Paren", expr |-> 227]
  , [k |-> "Lambda", param |-> [pk |-> "Pattern", entries |-> <<[name |-> "a", default |-> 0], [name |-> "b", default |-> 0]>>, ellipsis |-> FALSE, bind |-> ""], body |-> 228]
  , [k |-> "Ident", name |-> "a"]
  , [k |-> "AttrSet", rec |-> FALSE, entries |-> <<230>>]
  , [k |-> "AttrpathValue", path |-> <<231>>, value |-> 232]
  , [k |-> "Attr", name |-> "b"]
  , [k |-> "Int", v |-> 5]
  \* PPatDefaultSibling (nodes 233..241):  ({a ? b, b}: a) { b = 5; }
  , [k |-> "Apply", fn |-> 234, arg |-> 238]
  , [k |-> "Paren", expr |-> 235]
  , [k |-> "Lambda", param |-> [pk |-> "Pattern", entries |-> <<[name |-> "a", default |-> 236], [name |-> "b", default |-> 0]>>, ellipsis |-> FALSE, bind |-> ""], body |-> 237]
  , [k |-> "Ident", name |-> "b"]
  , [k |-> "Ident", name |-> "a"]
  , [k |-> "AttrSet", rec |-> FALSE, entries |-> <<239>>]
  , [k |-> "AttrpathValue", path |-> <<240>>, value |-> 241]
  , [k |-> "Attr", name |-> "b"]
  , [k |-> "Int", v |-> 5]
  \* PPatBind (nodes 242..249):  ({a, ...} @ all: all) { a = 1; }
  , [k |-> "Apply", fn |-> 243, arg |-> 246]
  , [k |-> "Paren", expr |-> 244]
  , [k |-> "Lambda", param |-> [pk |-> "Pattern", entries |-> <<[name |-> "a", default |-> 0]>>, ellipsis |-> TRUE, bind |-> "all"], body |-> 245]
  , [k |-> "Ident", name |-> "all"]
  , [k |-> "AttrSet", rec |-> FALSE, entries |-> <<247>>]
  , [k |-> "AttrpathValue", path |-> <<248>>, value |-> 249]
  , [k |-> "Attr", name |-> "a"]
  , [k |-> "Int", v |-> 1]
  \* PLamLazy (nodes 250..257):  (x: 1) (throw "boom")
  , [k |-> "Apply", fn |-> 251, arg |-> 254]
  , [k |-> "Paren", expr |-> 252]
  , [k |-> "Lambda", param |-> [pk |-> "Ident", name |-> "x"], body |-> 253]
  , [k |-> "Int", v |-> 1]
  , [k |-> "Paren", expr |-> 255]
  , [k |-> "Apply", fn |-> 256, arg |-> 257]
  , [k |-> "Ident", name |-> "throw"]
  , [k |-> "Str", v |-> "boom"]
  \* PLamId (nodes 258..262):  (x: x) 1
  , [k |-> "Apply", fn |-> 259, arg |-> 262]
  , [k |-> "Paren", expr |-> 260]
  , [k |-> "Lambda", param |-> [pk |-> "Ident", name |-> "x"], body |-> 261]
  , [k |-> "Ident", name |-> "x"]
  , [k |-> "Int", v |-> 1]
  \* PPathMerge (nodes 263..273):  { a = { x = 1; }; a.b = 2; }
  , [k |-> "AttrSet", rec |-> FALSE, entries |-> <<264, 270>>]
  , [k |-> "AttrpathValue", path |-> <<265>>, value |-> 266]
  , [k |-> "Attr", name |-> "a"]
  , [k |-> "AttrSet", rec |-> FALSE, entries |-> <<267>>]
  , [k |-> "AttrpathValue", path |-> <<268>>, value |-> 269]
  , [k |-> "Attr", name |-> "x"]
  , [k |-> "Int", v |-> 1]
  , [k |-> "AttrpathValue", path |-> <<271, 272>>, value |-> 273]
  , [k |-> "Attr", name |-> "a"]
  , [k |-> "Attr", name |-> "b"]
  , [k |-> "Int", v |-> 2]
  \* PPathVivify (nodes 274..282):  { a.b = 1; a.c = 2; }
  , [k |-> "AttrSet", rec |-> FALSE, entries |-> <<275, 279>>]
  , [k |-> "AttrpathValue", path |-> <<276, 277>>, value |-> 278]
  , [k |-> "Attr", name |-> "a"]
  , [k |-> "Attr", name |-> "b"]
  , [k |-> "Int", v |-> 1]
  , [k |-> "AttrpathValue", path |-> <<280, 281>>, value |-> 282]
  , [k |-> "Attr", name |-> "a"]
  , [k |-> "Attr", name |-> "c"]
  , [k |-> "Int", v |-> 2]
  \* PListThrow (nodes 283..288):  [ (throw "x") 2 ]
  , [k |-> "List", items |-> <<284, 288>>]
  , [k |-> "Paren", expr |-> 285]
  , [k |-> "Apply", fn |-> 286, arg |-> 287]
  , [k |-> "Ident", name |-> "throw"]
  , [k |-> "Str", v |-> "x"]
  , [k |-> "Int", v |-> 2]
  \* PMemo (nodes 289..295):  let y = 1; in [ y y ]
  , [k |-> "LetIn", entries |-> <<290>>, body |-> 293]
  , [k |-> "AttrpathValue", path |-> <<291>>, value |-> 292]
  , [k |-> "Attr", name |-> "y"]
  , [k |-> "Int", v |-> 1]
  , [k |-> "List", items |-> <<294, 295>>]
  , [k |-> "Ident", name |-> "y"]
  , [k |-> "Ident", name |-> "y"]
  \* PUnbound (nodes 296..296):  nope
  , [k |-> "Ident", name |-> "nope"]
  \* PApplyInt (nodes 297..299):  1 2
  , [k |-> "Apply", fn |-> 298, arg |-> 299]
  , [k |-> "Int", v |-> 1]
  , [k |-> "Int", v |-> 2]
  \* PApplyUnbound (nodes 300..302):  nope 1
  , [k |-> "Apply", fn |-> 301, arg |-> 302]
  , [k |-> "Ident", name |-> "nope"]
  , [k |-> "Int", v |-> 1]
  \* PSelPath (nodes 303..310):  { a.b = 1; }.a.b
  , [k |-> "Select", expr |-> 304, path |-> <<309, 310>>, default |-> 0]
  , [k |-> "AttrSet", rec |-> FALSE, entries |-> <<305>>]
  , [k |-> "AttrpathValue", path |-> <<306, 307>>, value |-> 308]
  , [k |-> "Attr", name |-> "a"]
  , [k |-> "Attr", name |-> "b"]
  , [k |-> "Int", v |-> 1]
  , [k |-> "Attr", name |-> "a"]
  , [k |-> "Attr", name |-> "b"]
  \* PSelMissing (nodes 311..316):  { a = 1; }.b
  , [k |-> "Select", expr |-> 312, path |-> <<316>>, default |-> 0]
  , [k |-> "AttrSet", rec |-> FALSE, entries |-> <<313>>]
  , [k |-> "AttrpathValue", path |-> <<314>>, value |-> 315]
  , [k |-> "Attr", name |-> "a"]
  , [k |-> "Int", v |-> 1]
  , [k |-> "Attr", name |-> "b"]
  \* PAndFalse (nodes 317..321):  false && throw "x"
  , [k |-> "BinOp", op |-> "And", lhs |-> 318, rhs |-> 319]
  , [k |-> "Ident", name |-> "false"]
  , [k |-> "Apply", fn |-> 320, arg |-> 321]
  , [k |-> "Ident", name |-> "throw"]
  , [k |-> "Str", v |-> "x"]
  \* POrTrue (nodes 322..326):  true || throw "x"
  , [k |-> "BinOp", op |-> "Or", lhs |-> 323, rhs |-> 324]
  , [k |-> "Ident", name |-> "true"]
  , [k |-> "Apply", fn |-> 325, arg |-> 326]
  , [k |-> "Ident", name |-> "throw"]
  , [k |-> "Str", v |-> "x"]
  \* PImplFalse (nodes 327..331):  false -> throw "x"
  , [k |-> "BinOp", op |-> "Implication", lhs |-> 328, rhs |-> 329]
  , [k |-> "Ident", name |-> "false"]
  , [k |-> "Apply", fn |-> 330, arg |-> 331]
  , [k |-> "Ident", name |-> "throw"]
  , [k |-> "Str", v |-> "x"]
  \* PAndTrue (nodes 332..334):  true && false
  , [k |-> "BinOp", op |-> "And", lhs |-> 333, rhs |-> 334]
  , [k |-> "Ident", name |-> "true"]
  , [k |-> "Ident", name |-> "false"]
  \* POrFalse (nodes 335..337):  false || true
  , [k |-> "BinOp", op |-> "Or", lhs |-> 336, rhs |-> 337]
  , [k |-> "Ident", name |-> "false"]
  , [k |-> "Ident", name |-> "true"]
  \* PImplTrue (nodes 338..340):  true -> false
  , [k |-> "BinOp", op |-> "Implication", lhs |-> 339, rhs |-> 340]
  , [k |-> "Ident", name |-> "true"]
  , [k |-> "Ident", name |-> "false"]
  \* PAndTrueThrow (nodes 341..345):  true && throw "x"
  , [k |-> "BinOp", op |-> "And", lhs |-> 342, rhs |-> 343]
  , [k |-> "Ident", name |-> "true"]
  , [k |-> "Apply", fn |-> 344, arg |-> 345]
  , [k |-> "Ident", name |-> "throw"]
  , [k |-> "Str", v |-> "x"]
  \* PUpdate (nodes 346..360):  { a = 1; b = 2; } // { b = 3; c = 4; }
  , [k |-> "BinOp", op |-> "Update", lhs |-> 347, rhs |-> 354]
  , [k |-> "AttrSet", rec |-> FALSE, entries |-> <<348, 351>>]
  , [k |-> "AttrpathValue", path |-> <<349>>, value |-> 350]
  , [k |-> "Attr", name |-> "a"]
  , [k |-> "Int", v |-> 1]
  , [k |-> "AttrpathValue", path |-> <<352>>, value |-> 353]
  , [k |-> "Attr", name |-> "b"]
  , [k |-> "Int", v |-> 2]
  , [k |-> "AttrSet", rec |-> FALSE, entries |-> <<355, 358>>]
  , [k |-> "AttrpathValue", path |-> <<356>>, value |-> 357]
  , [k |-> "Attr", name |-> "b"]
  , [k |-> "Int", v |-> 3]
  , [k |-> "AttrpathValue", path |-> <<359>>, value |-> 360]
  , [k |-> "Attr", name |-> "c"]
  , [k |-> "Int", v |-> 4]
  \* PUpdateSel (nodes 361..378):  ({ a = 1; b = 2; } // { b = 3; c = 4; }).b
  , [k |-> "Select", expr |-> 362, path |-> <<378>>, default |-> 0]
  , [k |-> "Paren", expr |-> 363]
  , [k |-> "BinOp", op |-> "Update", lhs |-> 364, rhs |-> 371]
  , [k |-> "AttrSet", rec |-> FALSE, entries |-> <<365, 368>>]
  , [k |-> "AttrpathValue", path |-> <<366>>, value |-> 367]
  , [k |-> "Attr", name |-> "a"]
  , [k |-> "Int", v |-> 1]
  , [k |-> "AttrpathValue", path |-> <<369>>, value |-> 370]
  , [k |-> "Attr", name |-> "b"]
  , [k |-> "Int", v |-> 2]
  , [k |-> "AttrSet", rec |-> FALSE, entries |-> <<372, 375>>]
  , [k |-> "AttrpathValue", path |-> <<373>>, value |-> 374]
  , [k |-> "Attr", name |-> "b"]
  , [k |-> "Int", v |-> 3]
  , [k |-> "AttrpathValue", path |-> <<376>>, value |-> 377]
  , [k |-> "Attr", name |-> "c"]
  , [k |-> "Int", v |-> 4]
  , [k |-> "Attr", name |-> "b"]
  \* PUpdateShallow (nodes 379..397):  ({ a = { x = 1; }; } // { a = { y = 2; }; }).a.x
  , [k |-> "Select", expr |-> 380, path |-> <<396, 397>>, default |-> 0]
  , [k |-> "Paren", expr |-> 381]
  , [k |-> "BinOp", op |-> "Update", lhs |-> 382, rhs |-> 389]
  , [k |-> "AttrSet", rec |-> FALSE, entries |-> <<383>>]
  , [k |-> "AttrpathValue", path |-> <<384>>, value |-> 385]
  , [k |-> "Attr", name |-> "a"]
  , [k |-> "AttrSet", rec |-> FALSE, entries |-> <<386>>]
  , [k |-> "AttrpathValue", path |-> <<387>>, value |-> 388]
  , [k |-> "Attr", name |-> "x"]
  , [k |-> "Int", v |-> 1]
  , [k |-> "AttrSet", rec |-> FALSE, entries |-> <<390>>]
  , [k |-> "AttrpathValue", path |-> <<391>>, value |-> 392]
  , [k |-> "Attr", name |-> "a"]
  , [k |-> "AttrSet", rec |-> FALSE, entries |-> <<393>>]
  , [k |-> "AttrpathValue", path |-> <<394>>, value |-> 395]
  , [k |-> "Attr", name |-> "y"]
  , [k |-> "Int", v |-> 2]
  , [k |-> "Attr", name |-> "a"]
  , [k |-> "Attr", name |-> "x"]
  \* PUpdateThrow (nodes 398..413):  ({ a = throw "l"; } // { b = throw "r"; }) == 1
  , [k |-> "BinOp", op |-> "Equal", lhs |-> 399, rhs |-> 413]
  , [k |-> "Paren", expr |-> 400]
  , [k |-> "BinOp", op |-> "Update", lhs |-> 401, rhs |-> 407]
  , [k |-> "AttrSet", rec |-> FALSE, entries |-> <<402>>]
  , [k |-> "AttrpathValue", path |-> <<403>>, value |-> 404]
  , [k |-> "Attr", name |-> "a"]
  , [k |-> "Apply", fn |-> 405, arg |-> 406]
  , [k |-> "Ident", name |-> "throw"]
  , [k |-> "Str", v |-> "l"]
  , [k |-> "AttrSet", rec |-> FALSE, entries |-> <<408>>]
  , [k |-> "AttrpathValue", path |-> <<409>>, value |-> 410]
  , [k |-> "Attr", name |-> "b"]
  , [k |-> "Apply", fn |-> 411, arg |-> 412]
  , [k |-> "Ident", name |-> "throw"]
  , [k |-> "Str", v |-> "r"]
  , [k |-> "Int", v |-> 1]
  \* PWith (nodes 414..419):  with { a = 1; }; a
  , [k |-> "With", ns |-> 415, body |-> 419]
  , [k |-> "AttrSet", rec |-> FALSE, entries |-> <<416>>]
  , [k |-> "AttrpathValue", path |-> <<417>>, value |-> 418]
  , [k |-> "Attr", name |-> "a"]
  , [k |-> "Int", v |-> 1]
  , [k |-> "Ident", name |-> "a"]
  \* PWithOuter (nodes 420..429):  let b = 2; in with { a = 1; }; b
  , [k |-> "LetIn", entries |-> <<421>>, body |-> 424]
  , [k |-> "AttrpathValue", path |-> <<422>>, value |-> 423]
  , [k |-> "Attr", name |-> "b"]
  , [k |-> "Int", v |-> 2]
  , [k |-> "With", ns |-> 425, body |-> 429]
  , [k |-> "AttrSet", rec |-> FALSE, entries |-> <<426>>]
  , [k |-> "AttrpathValue", path |-> <<427>>, value |-> 428]
  , [k |-> "Attr", name |-> "a"]
  , [k |-> "Int", v |-> 1]
  , [k |-> "Ident", name |-> "b"]
  \* PWithShadow (nodes 430..439):  let a = 2; in with { a = 1; }; a
  , [k |-> "LetIn", entries |-> <<431>>, body |-> 434]
  , [k |-> "AttrpathValue", path |-> <<432>>, value |-> 433]
  , [k |-> "Attr", name |-> "a"]
  , [k |-> "Int", v |-> 2]
  , [k |-> "With", ns |-> 435, body |-> 439]
  , [k |-> "AttrSet", rec |-> FALSE, entries |-> <<436>>]
  , [k |-> "AttrpathValue", path |-> <<437>>, value |-> 438]
  , [k |-> "Attr", name |-> "a"]
  , [k |-> "Int", v |-> 1]
  , [k |-> "Ident", name |-> "a"]
  \* PWithAfter (nodes 440..448):  (with { a = 1; }; a) == a
  , [k |-> "BinOp", op |-> "Equal", lhs |-> 441, rhs |-> 448]
  , [k |-> "Paren", expr |-> 442]
  , [k |-> "With", ns |-> 443, body |-> 447]
  , [k |-> "AttrSet", rec |-> FALSE, entries |-> <<444>>]
  , [k |-> "AttrpathValue", path |-> <<445>>, value |-> 446]
  , [k |-> "Attr", name |-> "a"]
  , [k |-> "Int", v |-> 1]
  , [k |-> "Ident", name |-> "a"]
  , [k |-> "Ident", name |-> "a"]
  \* PWithAfterOuter (nodes 449..461):  let a = 2; in (with { a = 1; }; a) == a
  , [k |-> "LetIn", entries |-> <<450>>, body |-> 453]
  , [k |-> "AttrpathValue", path |-> <<451>>, value |-> 452]
  , [k |-> "Attr", name |-> "a"]
  , [k |-> "Int", v |-> 2]
  , [k |-> "BinOp", op |-> "Equal", lhs |-> 454, rhs |-> 461]
  , [k |-> "Paren", expr |-> 455]
  , [k |-> "With", ns |-> 456, body |-> 460]
  , [k |-> "AttrSet", rec |-> FALSE, entries |-> <<457>>]
  , [k |-> "AttrpathValue", path |-> <<458>>, value |-> 459]
  , [k |-> "Attr", name |-> "a"]
  , [k |-> "Int", v |-> 1]
  , [k |-> "Ident", name |-> "a"]
  , [k |-> "Ident", name |-> "a"]
  \* PInhFromTwo (nodes 462..483):  let t = { inherit ({ a = 1; b = 2; }) a b; }; in t.a == t.b
  , [k |-> "LetIn", entries |-> <<463>>, body |-> 477]
  , [k |-> "AttrpathValue", path |-> <<464>>, value |-> 465]
  , [k |-> "Attr", name |-> "t"]
  , [k |-> "AttrSet", rec |-> FALSE, entries |-> <<466>>]
  , [k |-> "Inherit", from |-> 467, attrs |-> <<475, 476>>]
  , [k |-> "InheritFrom", expr |-> 468]
  , [k |-> "AttrSet", rec |-> FALSE, entries |-> <<469, 472>>]
  , [k |-> "AttrpathValue", path |-> <<470>>, value |-> 471]
  , [k |-> "Attr", name |-> "a"]
  , [k |-> "Int", v |-> 1]
  , [k |-> "AttrpathValue", path |-> <<473>>, value |-> 474]
  , [k |-> "Attr", name |-> "b"]
  , [k |-> "Int", v |-> 2]
  , [k |-> "Attr", name |-> "a"]
  , [k |-> "Attr", name |-> "b"]
  , [k |-> "BinOp", op |-> "Equal", lhs |-> 478, rhs |-> 481]
  , [k |-> "Select", expr |-> 479, path |-> <<480>>, default |-> 0]
  , [k |-> "Ident", name |-> "t"]
  , [k |-> "Attr", name |-> "a"]
  , [k |-> "Select", expr |-> 482, path |-> <<483>>, default |-> 0]
  , [k |-> "Ident", name |-> "t"]
  , [k |-> "Attr", name |-> "b"]
  \* PInhFromMissing (nodes 484..493):  { inherit ({ a = 1; }) b; }.b
  , [k |-> "Select", expr |-> 485, path |-> <<493>>, default |-> 0]
  , [k |-> "AttrSet", rec |-> FALSE, entries |-> <<486>>]
  , [k |-> "Inherit", from |-> 487, attrs |-> <<492>>]
  , [k |-> "InheritFrom", expr |-> 488]
  , [k |-> "AttrSet", rec |-> FALSE, entries |-> <<489>>]
  , [k |-> "AttrpathValue", path |-> <<490>>, value |-> 491]
  , [k |-> "Attr", name |-> "a"]
  , [k |-> "Int", v |-> 1]
  , [k |-> "Attr", name |-> "b"]
  , [k |-> "Attr", name |-> "b"]
  \* PInhFromUnused (nodes 494..505):  { inherit (throw "x") a; c = 1; }.c
  , [k |-> "Select", expr |-> 495, path |-> <<505>>, default |-> 0]
  , [k |-> "AttrSet", rec |-> FALSE, entries |-> <<496, 502>>]
  , [k |-> "Inherit", from |-> 497, attrs |-> <<501>>]
  , [k |-> "InheritFrom", expr |-> 498]
  , [k |-> "Apply", fn |-> 499, arg |-> 500]
  , [k |-> "Ident", name |-> "throw"]
  , [k |-> "Str", v |-> "x"]
  , [k |-> "Attr", name |-> "a"]
  , [k |-> "AttrpathValue", path |-> <<503>>, value |-> 504]
  , [k |-> "Attr", name |-> "c"]
  , [k |-> "Int", v |-> 1]
  , [k |-> "Attr", name |-> "c"]
  \* PSelDefaultOk (nodes 506..514):  { a = 1; }.a or throw "d"
  , [k |-> "Select", expr |-> 507, path |-> <<511>>, default |-> 512]
  , [k |-> "AttrSet", rec |-> FALSE, entries |-> <<508>>]
  , [k |-> "AttrpathValue", path |-> <<509>>, value |-> 510]
  , [k |-> "Attr", name |-> "a"]
  , [k |-> "Int", v |-> 1]
  , [k |-> "Attr", name |-> "a"]
  , [k |-> "Apply", fn |-> 513, arg |-> 514]
  , [k |-> "Ident", name |-> "throw"]
  , [k |-> "Str", v |-> "d"]
  \* PSelDefaultMissing (nodes 515..521):  { a = 1; }.b or 2
  , [k |-> "Select", expr |-> 516, path |-> <<520>>, default |-> 521]
  , [k |-> "AttrSet", rec |-> FALSE, entries |-> <<517>>]
  , [k |-> "AttrpathValue", path |-> <<518>>, value |-> 519]
  , [k |-> "Attr", name |-> "a"]
  , [k |-> "Int", v |-> 1]
  , [k |-> "Attr", name |-> "b"]
  , [k |-> "Int", v |-> 2]
  \* PSelDefaultNonSet (nodes 522..529):  { a = 1; }.a.b or 2
  , [k |-> "Select", expr |-> 523, path |-> <<527, 528>>, default |-> 529]
  , [k |-> "AttrSet", rec |-> FALSE, entries |-> <<524>>]
  , [k |-> "AttrpathValue", path |-> <<525>>, value |-> 526]
  , [k |-> "Attr", name |-> "a"]
  , [k |-> "Int", v |-> 1]
  , [k |-> "Attr", name |-> "a"]
  , [k |-> "Attr", name |-> "b"]
  , [k |-> "Int", v |-> 2]
  \* PSelDefaultErr (nodes 530..539):  { a = throw "x"; }.a.b or 2
  , [k |-> "Select", expr |-> 531, path |-> <<537, 538>>, default |-> 539]
  , [k |-> "AttrSet", rec |-> FALSE, entries |-> <<532>>]
  , [k |-> "AttrpathValue", path |-> <<533>>, value |-> 534]
  , [k |-> "Attr", name |-> "a"]
  , [k |-> "Apply", fn |-> 535, arg |-> 536]
  , [k |-> "Ident", name |-> "throw"]
  , [k |-> "Str", v |-> "x"]
  , [k |-> "Attr", name |-> "a"]
  , [k |-> "Attr", name |-> "b"]
  , [k |-> "Int", v |-> 2]
  \* PHasYes (nodes 540..545):  { a = 1; } ? a
  , [k |-> "HasAttr", expr |-> 541, path |-> <<545>>]
  , [k |-> "AttrSet", rec |-> FALSE, entries |-> <<542>>]
  , [k |-> "AttrpathValue", path |-> <<543>>, value |-> 544]
  , [k |-> "Attr", name |-> "a"]
  , [k |-> "Int", v |-> 1]
  , [k |-> "Attr", name |-> "a"]
  \* PHasMissing (nodes 546..551):  { a = 1; } ? b
  , [k |-> "HasAttr", expr |-> 547, path |-> <<551>>]
  , [k |-> "AttrSet", rec |-> FALSE, entries |-> <<548>>]
  , [k |-> "AttrpathValue", path |-> <<549>>, value |-> 550]
  , [k |-> "Attr", name |-> "a"]
  , [k |-> "Int", v |-> 1]
  , [k |-> "Attr", name |-> "b"]
  \* PHasNonSet (nodes 552..558):  { a = 1; } ? a.b
  , [k |-> "HasAttr", expr |-> 553, path |-> <<557, 558>>]
  , [k |-> "AttrSet", rec |-> FALSE, entries |-> <<554>>]
  , [k |-> "AttrpathValue", path |-> <<555>>, value |-> 556]
  , [k |-> "Attr", name |-> "a"]
  , [k |-> "Int", v |-> 1]
  , [k |-> "Attr", name |-> "a"]
  , [k |-> "Attr", name |-> "b"]
  \* PHasLazy (nodes 559..566):  { a = throw "x"; } ? a
  , [k |-> "HasAttr", expr |-> 560, path |-> <<566>>]
  , [k |-> "AttrSet", rec |-> FALSE, entries |-> <<561>>]
  , [k |-> "AttrpathValue", path |-> <<562>>, value |-> 563]
  , [k |-> "Attr", name |-> "a"]
  , [k |-> "Apply", fn |-> 564, arg |-> 565]
  , [k |-> "Ident", name |-> "throw"]
  , [k |-> "Str", v |-> "x"]
  , [k |-> "Attr", name |-> "a"]
  \* PHasInnerErr (nodes 567..575):  { a = throw "x"; } ? a.b
  , [k |-> "HasAttr", expr |-> 568, path |-> <<574, 575>>]
  , [k |-> "AttrSet", rec |-> FALSE, entries |-> <<569>>]
  , [k |-> "AttrpathValue", path |-> <<570>>, value |-> 571]
  , [k |-> "Attr", name |-> "a"]
  , [k |-> "Apply", fn |-> 572, arg |-> 573]
  , [k |-> "Ident", name |-> "throw"]
  , [k |-> "Str", v |-> "x"]
  , [k |-> "Attr", name |-> "a"]
  , [k |-> "Attr", name |-> "b"]
  \* PVivifyShared (nodes 576..589):  { a.b.c = 1; a.b.d = 2; }.a.b
  , [k |-> "Select", expr |-> 577, path |-> <<588, 589>>, default |-> 0]
  , [k |-> "AttrSet", rec |-> FALSE, entries |-> <<578, 583>>]
  , [k |-> "AttrpathValue", path |-> <<579, 580, 581>>, value |-> 582]
  , [k |-> "Attr", name |-> "a"]
  , [k |-> "Attr", name |-> "b"]
  , [k |-> "Attr", name |-> "c"]
  , [k |-> "Int", v |-> 1]
  , [k |-> "AttrpathValue", path |-> <<584, 585, 586>>, value |-> 587]
  , [k |-> "Attr", name |-> "a"]
  , [k |-> "Attr", name |-> "b"]
  , [k |-> "Attr", name |-> "d"]
  , [k |-> "Int", v |-> 2]
  , [k |-> "Attr", name |-> "a"]
  , [k |-> "Attr", name |-> "b"]
  \* PIfTrue (nodes 590..593):  if true then 1 else 2
  , [k |-> "IfElse", cond |-> 591, body |-> 592, else |-> 593]
  , [k |-> "Ident", name |-> "true"]
  , [k |-> "Int", v |-> 1]
  , [k |-> "Int", v |-> 2]
  \* PIfFalse (nodes 594..597):  if false then 1 else 2
  , [k |-> "IfElse", cond |-> 595, body |-> 596, else |-> 597]
  , [k |-> "Ident", name |-> "false"]
  , [k |-> "Int", v |-> 1]
  , [k |-> "Int", v |-> 2]
  \* PAssertTrue (nodes 598..600):  assert true; 1
  , [k |-> "Assert", cond |-> 599, body |-> 600]
  , [k |-> "Ident", name |-> "true"]
  , [k |-> "Int", v |-> 1]
  \* PAssertFalse (nodes 601..603):  assert false; 1
  , [k |-> "Assert", cond |-> 602, body |-> 603]
  , [k |-> "Ident", name |-> "false"]
  , [k |-> "Int", v |-> 1]
  \* PNot (nodes 604..605):  !true
  , [k |-> "UnaryOp", op |-> "Invert", expr |-> 605]
  , [k |-> "Ident", name |-> "true"]
  \* PAndInt (nodes 606..608):  1 && true
  , [k |-> "BinOp", op |-> "And", lhs |-> 607, rhs |-> 608]
  , [k |-> "Int", v |-> 1]
  , [k |-> "Ident", name |-> "true"]
  \* POrInt (nodes 609..611):  1 || true
  , [k |-> "BinOp", op |-> "Or", lhs |-> 610, rhs |-> 611]
  , [k |-> "Int", v |-> 1]
  , [k |-> "Ident", name |-> "true"]
  \* PImplInt (nodes 612..614):  1 -> true
  , [k |-> "BinOp", op |-> "Implication", lhs |-> 613, rhs |-> 614]
  , [k |-> "Int", v |-> 1]
  , [k |-> "Ident", name |-> "true"]
  \* PConcatInt (nodes 615..618):  1 ++ [ 2 ]
  , [k |-> "BinOp", op |-> "Concat", lhs |-> 616, rhs |-> 617]
  , [k |-> "Int", v |-> 1]
  , [k |-> "List", items |-> <<618>>]
  , [k |-> "Int", v |-> 2]
  \* PUpdateInt (nodes 619..621):  1 // { }
  , [k |-> "BinOp", op |-> "Update", lhs |-> 620, rhs |-> 621]
  , [k |-> "Int", v |-> 1]
  , [k |-> "AttrSet", rec |-> FALSE, entries |-> <<>>]
  \* PAddStrInt (nodes 622..624):  "a" + 1
  , [k |-> "BinOp", op |-> "Add", lhs |-> 623, rhs |-> 624]
  , [k |-> "Str", v |-> "a"]
  , [k |-> "Int", v |-> 1]
  \* PLessStr (nodes 625..627):  1 < "a"
  , [k |-> "BinOp", op |-> "Less", lhs |-> 626, rhs |-> 627]
  , [k |-> "Int", v |-> 1]
  , [k |-> "Str", v |-> "a"]
  \* PNotInt (nodes 628..629):  !1
  , [k |-> "UnaryOp", op |-> "Invert", expr |-> 629]
  , [k |-> "Int", v |-> 1]
  \* PIfInt (nodes 630..633):  if 1 then 2 else 3
  , [k |-> "IfElse", cond |-> 631, body |-> 632, else |-> 633]
  , [k |-> "Int", v |-> 1]
  , [k |-> "Int", v |-> 2]
  , [k |-> "Int", v |-> 3]
  \* PAssertInt (nodes 634..636):  assert 1; 2
  , [k |-> "Assert", cond |-> 635, body |-> 636]
  , [k |-> "Int", v |-> 1]
  , [k |-> "Int", v |-> 2]
  \* PLetAdd (nodes 637..646):  let x = 1; y = x + 1; in y
  , [k |-> "LetIn", entries |-> <<638, 641>>, body |-> 646]
  , [k |-> "AttrpathValue", path |-> <<639>>, value |-> 640]
  , [k |-> "Attr", name |-> "x"]
  , [k |-> "Int", v |-> 1]
  , [k |-> "AttrpathValue", path |-> <<642>>, value |-> 643]
  , [k |-> "Attr", name |-> "y"]
  , [k |-> "BinOp", op |-> "Add", lhs |-> 644, rhs |-> 645]
  , [k |-> "Ident", name |-> "x"]
  , [k |-> "Int", v |-> 1]
  , [k |-> "Ident", name |-> "y"]
  \* PSub (nodes 647..649):  3 - 1
  , [k |-> "BinOp", op |-> "Sub", lhs |-> 648, rhs |-> 649]
  , [k |-> "Int", v |-> 3]
  , [k |-> "Int", v |-> 1]
  \* PMul (nodes 650..652):  2 * 3
  , [k |-> "BinOp", op |-> "Mul", lhs |-> 651, rhs |-> 652]
  , [k |-> "Int", v |-> 2]
  , [k |-> "Int", v |-> 3]
  \* PDiv (nodes 653..655):  6 / 2
  , [k |-> "BinOp", op |-> "Div", lhs |-> 654, rhs |-> 655]
  , [k |-> "Int", v |-> 6]
  , [k |-> "Int", v |-> 2]
  \* PNeg (nodes 656..657):  -1
  , [k |-> "UnaryOp", op |-> "Negate", expr |-> 657]
  , [k |-> "Int", v |-> 1]
  \* PMapPartial (nodes 658..663):  map (throw "x")
  , [k |-> "Apply", fn |-> 659, arg |-> 660]
  , [k |-> "Ident", name |-> "map"]
  , [k |-> "Paren", expr |-> 661]
  , [k |-> "Apply", fn |-> 662, arg |-> 663]
  , [k |-> "Ident", name |-> "throw"]
  , [k |-> "Str", v |-> "x"]
  \* PMapPartialEq (nodes 664..671):  map (throw "x") == 1
  , [k |-> "BinOp", op |-> "Equal", lhs |-> 665, rhs |-> 671]
  , [k |-> "Apply", fn |-> 666, arg |-> 667]
  , [k |-> "Ident", name |-> "map"]
  , [k |-> "Paren", expr |-> 668]
  , [k |-> "Apply", fn |-> 669, arg |-> 670]
  , [k |-> "Ident", name |-> "throw"]
  , [k |-> "Str", v |-> "x"]
  , [k |-> "Int", v |-> 1]
  \* PFailedHas (nodes 672..689):  let s = { a = throw "x"; }; in if s ? a.b then 1 else s.a
  , [k |-> "LetIn", entries |-> <<673>>, body |-> 681]
  , [k |-> "AttrpathValue", path |-> <<674>>, value |-> 675]
  , [k |-> "Attr", name |-> "s"]
  , [k |-> "AttrSet", rec |-> FALSE, entries |-> <<676>>]
  , [k |-> "AttrpathValue", path |-> <<677>>, value |-> 678]
  , [k |-> "Attr", name |-> "a"]
  , [k |-> "Apply", fn |-> 679, arg |-> 680]
  , [k |-> "Ident", name |-> "throw"]
  , [k |-> "Str", v |-> "x"]
  , [k |-> "IfElse", cond |-> 682, body |-> 686, else |-> 687]
  , [k |-> "HasAttr", expr |-> 683, path |-> <<684, 685>>]
  , [k |-> "Ident", name |-> "s"]
  , [k |-> "Attr", name |-> "a"]
  , [k |-> "Attr", name |-> "b"]
  , [k |-> "Int", v |-> 1]
  , [k |-> "Select", expr |-> 688, path |-> <<689>>, default |-> 0]
  , [k |-> "Ident", name |-> "s"]
  , [k |-> "Attr", name |-> "a"]
  \* PFailedDefault (nodes 690..708):  let s = { a = throw "x"; }; in (s.a.b or 2) == s.a
  , [k |-> "LetIn", entries |-> <<691>>, body |-> 699]
  , [k |-> "AttrpathValue", path |-> <<692>>, value |-> 693]
  , [k |-> "Attr", name |-> "s"]
  , [k |-> "AttrSet", rec |-> FALSE, entries |-> <<694>>]
  , [k |-> "AttrpathValue", path |-> <<695>>, value |-> 696]
  , [k |-> "Attr", name |-> "a"]
  , [k |-> "Apply", fn |-> 697, arg |-> 698]
  , [k |-> "Ident", name |-> "throw"]
  , [k |-> "Str", v |-> "x"]
  , [k |-> "BinOp", op |-> "Equal", lhs |-> 700, rhs |-> 706]
  , [k |-> "Paren", expr |-> 701]
  , [k |-> "Select", expr |-> 702, path |-> <<703, 704>>, default |-> 705]
  , [k |-> "Ident", name |-> "s"]
  , [k |-> "Attr", name |-> "a"]
  , [k |-> "Attr", name |-> "b"]
  , [k |-> "Int", v |-> 2]
  , [k |-> "Select", expr |-> 707, path |-> <<708>>, default |-> 0]
  , [k |-> "Ident", name |-> "s"]
  , [k |-> "Attr", name |-> "a"]
  \* PInheritReentrant (nodes 709..721):  rec { inherit (s) a; s = { a = a; }; }.a
  , [k |-> "Select", expr |-> 710, path |-> <<721>>, default |-> 0]
  , [k |-> "AttrSet", rec |-> TRUE, entries |-> <<711, 715>>]
  , [k |-> "Inherit", from |-> 712, attrs |-> <<714>>]
  , [k |-> "InheritFrom", expr |-> 713]
  , [k |-> "Ident", name |-> "s"]
  , [k |-> "Attr", name |-> "a"]
  , [k |-> "AttrpathValue", path |-> <<716>>, value |-> 717]
  , [k |-> "Attr", name |-> "s"]
  , [k |-> "AttrSet", rec |-> FALSE, entries |-> <<718>>]
  , [k |-> "AttrpathValue", path |-> <<719>>, value |-> 720]
  , [k |-> "Attr", name |-> "a"]
  , [k |-> "Ident", name |-> "a"]
  , [k |-> "Attr", name |-> "a"]
  \* PInheritTwice (nodes 722..739):  let t = { inherit ({ a = 1; }) a; }; in t.a == t.a
  , [k |-> "LetIn", entries |-> <<723>>, body |-> 733]
  , [k |-> "AttrpathValue", path |-> <<724>>, value |-> 725]
  , [k |-> "Attr", name |-> "t"]
  , [k |-> "AttrSet", rec |-> FALSE, entries |-> <<726>>]
  , [k |-> "Inherit", from |-> 727, attrs |-> <<732>>]
  , [k |-> "InheritFrom", expr |-> 728]
  , [k |-> "AttrSet", rec |-> FALSE, entries |-> <<729>>]
  , [k |-> "AttrpathValue", path |-> <<730>>, value |-> 731]
  , [k |-> "Attr", name |-> "a"]
  , [k |-> "Int", v |-> 1]
  , [k |-> "Attr", name |-> "a"]
  , [k |-> "BinOp", op |-> "Equal", lhs |-> 734, rhs |-> 737]
  , [k |-> "Select", expr |-> 735, path |-> <<736>>, default |-> 0]
  , [k |-> "Ident", name |-> "t"]
  , [k |-> "Attr", name |-> "a"]
  , [k |-> "Select", expr |-> 738, path |-> <<739>>, default |-> 0]
  , [k |-> "Ident", name |-> "t"]
  , [k |-> "Attr", name |-> "a"]
  \* PDeep (nodes 740..750):  { a = { b = 1; }; c = [ 2 ]; }
  , [k |-> "AttrSet", rec |-> FALSE, entries |-> <<741, 747>>]
  , [k |-> "AttrpathValue", path |-> <<742>>, value |-> 743]
  , [k |-> "Attr", name |-> "a"]
  , [k |-> "AttrSet", rec |-> FALSE, entries |-> <<744>>]
  , [k |-> "AttrpathValue", path |-> <<745>>, value |-> 746]
  , [k |-> "Attr", name |-> "b"]
  , [k |-> "Int", v |-> 1]
  , [k |-> "AttrpathValue", path |-> <<748>>, value |-> 749]
  , [k |-> "Attr", name |-> "c"]
  , [k |-> "List", items |-> <<750>>]
  , [k |-> "Int", v |-> 2]
  \* PDeepCycle (nodes 751..758):  let x = { y = x; }; in x
  , [k |-> "LetIn", entries |-> <<752>>, body |-> 758]
  , [k |-> "AttrpathValue", path |-> <<753>>, value |-> 754]
  , [k |-> "Attr", name |-> "x"]
  , [k |-> "AttrSet", rec |-> FALSE, entries |-> <<755>>]
  , [k |-> "AttrpathValue", path |-> <<756>>, value |-> 757]
  , [k |-> "Attr", name |-> "y"]
  , [k |-> "Ident", name |-> "x"]
  , [k |-> "Ident", name |-> "x"]
  \* PDeepGrows (nodes 759..773):  let s = { a = with s; let b = 2; in 1; }; in [ s ]
  , [k |-> "LetIn", entries |-> <<760>>, body |-> 772]
  , [k |-> "AttrpathValue", path |-> <<761>>, value |-> 762]
  , [k |-> "Attr", name |-> "s"]
  , [k |-> "AttrSet", rec |-> FALSE, entries |-> <<763>>]
  , [k |-> "AttrpathValue", path |-> <<764>>, value |-> 765]
  , [k |-> "Attr", name |-> "a"]
  , [k |-> "With", ns |-> 766, body |-> 767]
  , [k |-> "Ident", name |-> "s"]
  , [k |-> "LetIn", entries |-> <<768>>, body |-> 771]
  , [k |-> "AttrpathValue", path |-> <<769>>, value |-> 770]
  , [k |-> "Attr", name |-> "b"]
  , [k |-> "Int", v |-> 2]
  , [k |-> "Int", v |-> 1]
  , [k |-> "List", items |-> <<773>>]
  , [k |-> "Ident", name |-> "s"]
  \* PLamSet (nodes 774..778):  x: { v = x; }
  , [k |-> "Lambda", param |-> [pk |-> "Ident", name |-> "x"], body |-> 775]
  , [k |-> "AttrSet", rec |-> FALSE, entries |-> <<776>>]
  , [k |-> "AttrpathValue", path |-> <<777>>, value |-> 778]
  , [k |-> "Attr", name |-> "v"]
  , [k |-> "Ident", name |-> "x"]
  \* PLamPattern (nodes 779..781):  { a ? 1 }: a
  , [k |-> "Lambda", param |-> [pk |-> "Pattern", entries |-> <<[name |-> "a", default |-> 780]>>, ellipsis |-> FALSE, bind |-> ""], body |-> 781]
  , [k |-> "Int", v |-> 1]
  , [k |-> "Ident", name |-> "a"]
  \* PApplyTwice (nodes 782..813):  let f = x: { v = x; }; a = f 1; in (a ? v) && (f 2).v == 2 && a.v == 1
  , [k |-> "LetIn", entries |-> <<783, 790>>, body |-> 795]
  , [k |-> "AttrpathValue", path |-> <<784>>, value |-> 785]
  , [k |-> "Attr", name |-> "f"]
  , [k |-> "Lambda", param |-> [pk |-> "Ident", name |-> "x"], body |-> 786]
  , [k |-> "AttrSet", rec |-> FALSE, entries |-> <<787>>]
  , [k |-> "AttrpathValue", path |-> <<788>>, value |-> 789]
  , [k |-> "Attr", name |-> "v"]
  , [k |-> "Ident", name |-> "x"]
  , [k |-> "AttrpathValue", path |-> <<791>>, value |-> 792]
  , [k |-> "Attr", name |-> "a"]
  , [k |-> "Apply", fn |-> 793, arg |-> 794]
  , [k |-> "Ident", name |-> "f"]
  , [k |-> "Int", v |-> 1]
  , [k |-> "BinOp", op |-> "And", lhs |-> 796, rhs |-> 809]
  , [k |-> "BinOp", op |-> "And", lhs |-> 797, rhs |-> 801]
  , [k |-> "Paren", expr |-> 798]
  , [k |-> "HasAttr", expr |-> 799, path |-> <<800>>]
  , [k |-> "Ident", name |-> "a"]
  , [k |-> "Attr", name |-> "v"]
  , [k |-> "BinOp", op |-> "Equal", lhs |-> 802, rhs |-> 808]
  , [k |-> "Select", expr |-> 803, path |-> <<807>>, default |-> 0]
  , [k |-> "Paren", expr |-> 804]
  , [k |-> "Apply", fn |-> 805, arg |-> 806]
  , [k |-> "Ident", name |-> "f"]
  , [k |-> "Int", v |-> 2]
  , [k |-> "Attr", name |-> "v"]
  , [k |-> "Int", v |-> 2]
  , [k |-> "BinOp", op |-> "Equal", lhs |-> 810, rhs |-> 813]
  , [k |-> "Select", expr |-> 811, path |-> <<812>>, default |-> 0]
  , [k |-> "Ident", name |-> "a"]
  , [k |-> "Attr", name |-> "v"]
  , [k |-> "Int", v |-> 1]
  \* PWithLam (nodes 814..826):  let s = { a = 1; }; in with s; with s; x: a
  , [k |-> "LetIn", entries |-> <<815>>, body |-> 821]
  , [k |-> "AttrpathValue", path |-> <<816>>, value |-> 817]
  , [k |-> "Attr", name |-> "s"]
  , [k |-> "AttrSet", rec |-> FALSE, entries |-> <<818>>]
  , [k |-> "AttrpathValue", path |-> <<819>>, value |-> 820]
  , [k |-> "Attr", name |-> "a"]
  , [k |-> "Int", v |-> 1]
  , [k |-> "With", ns |-> 822, body |-> 823]
  , [k |-> "Ident", name |-> "s"]
  , [k |-> "With", ns |-> 824, body |-> 825]
  , [k |-> "Ident", name |-> "s"]
  , [k |-> "Lambda", param |-> [pk |-> "Ident", name |-> "x"], body |-> 826]
  , [k |-> "Ident", name |-> "a"]
  \* PListLet (nodes 827..834):  [ (let y = 1; in y) y ]
  , [k |-> "List", items |-> <<828, 834>>]
  , [k |-> "Paren", expr |-> 829]
  , [k |-> "LetIn", entries |-> <<830>>, body |-> 833]
  , [k |-> "AttrpathValue", path |-> <<831>>, value |-> 832]
  , [k |-> "Attr", name |-> "y"]
  , [k |-> "Int", v |-> 1]
  , [k |-> "Ident", name |-> "y"]
  , [k |-> "Ident", name |-> "y"]
  \* PMapFull (nodes 835..848):  map (x: x + 1) [ 7 (throw "x") ]
  , [k |-> "Apply", fn |-> 836, arg |-> 843]
  , [k |-> "Apply", fn |-> 837, arg |-> 838]
  , [k |-> "Ident", name |-> "map"]
  , [k |-> "Paren", expr |-> 839]
  , [k |-> "Lambda", param |-> [pk |-> "Ident", name |-> "x"], body |-> 840]
  , [k |-> "BinOp", op |-> "Add", lhs |-> 841, rhs |-> 842]
  , [k |-> "Ident", name |-> "x"]
  , [k |-> "Int", v |-> 1]
  , [k |-> "List", items |-> <<844, 845>>]
  , [k |-> "Int", v |-> 7]
  , [k |-> "Paren", expr |-> 846]
  , [k |-> "Apply", fn |-> 847, arg |-> 848]
  , [k |-> "Ident", name |-> "throw"]
  , [k |-> "Str", v |-> "x"]
  \* PMapSwapped (nodes 849..856):  map [ 7 ] (x: x)
  , [k |-> "Apply", fn |-> 850, arg |-> 854]
  , [k |-> "Apply", fn |-> 851, arg |-> 852]
  , [k |-> "Ident", name |-> "map"]
  , [k |-> "List", items |-> <<853>>]
  , [k |-> "Int", v |-> 7]
  , [k |-> "Paren", expr |-> 855]
  , [k |-> "Lambda", param |-> [pk |-> "Ident", name |-> "x"], body |-> 856]
  , [k |-> "Ident", name |-> "x"]
  \* PMapThrow (nodes 857..865):  map (throw "f") [ 7 ]
  , [k |-> "Apply", fn |-> 858, arg |-> 864]
  , [k |-> "Apply", fn |-> 859, arg |-> 860]
  , [k |-> "Ident", name |-> "map"]
  , [k |-> "Paren", expr |-> 861]
  , [k |-> "Apply", fn |-> 862, arg |-> 863]
  , [k |-> "Ident", name |-> "throw"]
  , [k |-> "Str", v |-> "f"]
  , [k |-> "List", items |-> <<865>>]
  , [k |-> "Int", v |-> 7]
  \* PMapPattern (nodes 866..876):  map ({ a }: a) [ { a = 1; } ]
  , [k |-> "Apply", fn |-> 867, arg |-> 872]
  , [k |-> "Apply", fn |-> 868, arg |-> 869]
  , [k |-> "Ident", name |-> "map"]
  , [k |-> "Paren", expr |-> 870]
  , [k |-> "Lambda", param |-> [pk |-> "Pattern", entries |-> <<[name |-> "a", default |-> 0]>>, ellipsis |-> FALSE, bind |-> ""], body |-> 871]
  , [k |-> "Ident", name |-> "a"]
  , [k |-> "List", items |-> <<873>>]
  , [k |-> "AttrSet", rec |-> FALSE, entries |-> <<874>>]
  , [k |-> "AttrpathValue", path |-> <<875>>, value |-> 876]
  , [k |-> "Attr", name |-> "a"]
  , [k |-> "Int", v |-> 1]
  \* PMapShared (nodes 877..901):  let m = map (x: x + 1); in [ (m [ 1 ]) (m [ 2 (throw "x") ]) ]
  , [k |-> "LetIn", entries |-> <<878>>, body |-> 887]
  , [k |-> "AttrpathValue", path |-> <<879>>, value |-> 880]
  , [k |-> "Attr", name |-> "m"]
  , [k |-> "Apply", fn |-> 881, arg |-> 882]
  , [k |-> "Ident", name |-> "map"]
  , [k |-> "Paren", expr |-> 883]
  , [k |-> "Lambda", param |-> [pk |-> "Ident", name |-> "x"], body |-> 884]
  , [k |-> "BinOp", op |-> "Add", lhs |-> 885, rhs |-> 886]
  , [k |-> "Ident", name |-> "x"]
  , [k |-> "Int", v |-> 1]
  , [k |-> "List", items |-> <<888, 893>>]
  , [k |-> "Paren", expr |-> 889]
  , [k |-> "Apply", fn |-> 890, arg |-> 891]
  , [k |-> "Ident", name |-> "m"]
  , [k |-> "List", items |-> <<892>>]
  , [k |-> "Int", v |-> 1]
  , [k |-> "Paren", expr |-> 894]
  , [k |-> "Apply", fn |-> 895, arg |-> 896]
  , [k |-> "Ident", name |-> "m"]
  , [k |-> "List", items |-> <<897, 898>>]
  , [k |-> "Int", v |-> 2]
  , [k |-> "Paren", expr |-> 899]
  , [k |-> "Apply", fn |-> 900, arg |-> 901]
  , [k |-> "Ident", name |-> "throw"]
  , [k |-> "Str", v |-> "x"]
  >>

\* The root node of each program.
Programs ==
  [ PLetThrow          |-> 1  , \* let x = throw "boom"; in 1
    PLetInf            |-> 8  , \* let inf = inf; in 1
    PLetSelf           |-> 13 , \* let x = x; in x
    PShadowAdd         |-> 18 , \* let a = 1; in (let a = 2; in a) + a
    PShadowEq          |-> 30 , \* let a = 1; in (let a = 2; in a) == a
    PShadowList        |-> 42 , \* let a = 1; in [ (let a = 2; in a) a ]
    PWithLet           |-> 54 , \* let s = { a = 1; }; in with s; let b = 2; in s
    PRecAB             |-> 68 , \* rec { a = 1; b = a; }.b
    PRecBA             |-> 77 , \* rec { b = a; a = 1; }.b
    PRecAdd            |-> 86 , \* rec { a = 1; b = a + 1; }.b
    PLetInherit        |-> 97 , \* let a = 1; in (let inherit a; in a)
    PRecInherit        |-> 106, \* let a = 1; in rec { inherit a; }.a
    PSetInherit        |-> 115, \* let a = 1; in { inherit a; }.a
    PInheritFrom       |-> 124, \* let s = { x = 1; }; in (let inherit (s) x; in x)
    PSetEq             |-> 138, \* { a = 1; } == { a = 1; }
    PSetNe             |-> 147, \* { a = 1; } != { a = 1; }
    PSameSetEq         |-> 156, \* let s = { a = 1; }; in s == s
    PListEq            |-> 166, \* [ 1 ] == [ 1 ]
    PIntEq             |-> 171, \* 1 == 1
    PIntNe             |-> 174, \* 1 != 2
    PPatExtra          |-> 177, \* ({a, b}: a) { a = 1; b = 2; c = 3; }
    PPatEllipsis       |-> 191, \* ({a, b, ...}: a) { a = 1; b = 2; c = 3; }
    PPatDefaultAdd     |-> 205, \* ({a ? 10, b}: a + b) { b = 5; }
    PPatDefault        |-> 216, \* ({a ? 10, b}: a) { b = 5; }
    PPatMissing        |-> 225, \* ({a, b}: a) { b = 5; }
    PPatDefaultSibling |-> 233, \* ({a ? b, b}: a) { b = 5; }
    PPatBind           |-> 242, \* ({a, ...} @ all: all) { a = 1; }
    PLamLazy           |-> 250, \* (x: 1) (throw "boom")
    PLamId             |-> 258, \* (x: x) 1
    PPathMerge         |-> 263, \* { a = { x = 1; }; a.b = 2; }
    PPathVivify        |-> 274, \* { a.b = 1; a.c = 2; }
    PListThrow         |-> 283, \* [ (throw "x") 2 ]
    PMemo              |-> 289, \* let y = 1; in [ y y ]
    PUnbound           |-> 296, \* nope
    PApplyInt          |-> 297, \* 1 2
    PApplyUnbound      |-> 300, \* nope 1
    PSelPath           |-> 303, \* { a.b = 1; }.a.b
    PSelMissing        |-> 311, \* { a = 1; }.b
    PAndFalse          |-> 317, \* false && throw "x"
    POrTrue            |-> 322, \* true || throw "x"
    PImplFalse         |-> 327, \* false -> throw "x"
    PAndTrue           |-> 332, \* true && false
    POrFalse           |-> 335, \* false || true
    PImplTrue          |-> 338, \* true -> false
    PAndTrueThrow      |-> 341, \* true && throw "x"
    PUpdate            |-> 346, \* { a = 1; b = 2; } // { b = 3; c = 4; }
    PUpdateSel         |-> 361, \* ({ a = 1; b = 2; } // { b = 3; c = 4; }).b
    PUpdateShallow     |-> 379, \* ({ a = { x = 1; }; } // { a = { y = 2; }; }).a.x
    PUpdateThrow       |-> 398, \* ({ a = throw "l"; } // { b = throw "r"; }) == 1
    PWith              |-> 414, \* with { a = 1; }; a
    PWithOuter         |-> 420, \* let b = 2; in with { a = 1; }; b
    PWithShadow        |-> 430, \* let a = 2; in with { a = 1; }; a
    PWithAfter         |-> 440, \* (with { a = 1; }; a) == a
    PWithAfterOuter    |-> 449, \* let a = 2; in (with { a = 1; }; a) == a
    PInhFromTwo        |-> 462, \* let t = { inherit ({ a = 1; b = 2; }) a b; }; in t.a == t.b
    PInhFromMissing    |-> 484, \* { inherit ({ a = 1; }) b; }.b
    PInhFromUnused     |-> 494, \* { inherit (throw "x") a; c = 1; }.c
    PSelDefaultOk      |-> 506, \* { a = 1; }.a or throw "d"
    PSelDefaultMissing |-> 515, \* { a = 1; }.b or 2
    PSelDefaultNonSet  |-> 522, \* { a = 1; }.a.b or 2
    PSelDefaultErr     |-> 530, \* { a = throw "x"; }.a.b or 2
    PHasYes            |-> 540, \* { a = 1; } ? a
    PHasMissing        |-> 546, \* { a = 1; } ? b
    PHasNonSet         |-> 552, \* { a = 1; } ? a.b
    PHasLazy           |-> 559, \* { a = throw "x"; } ? a
    PHasInnerErr       |-> 567, \* { a = throw "x"; } ? a.b
    PVivifyShared      |-> 576, \* { a.b.c = 1; a.b.d = 2; }.a.b
    PIfTrue            |-> 590, \* if true then 1 else 2
    PIfFalse           |-> 594, \* if false then 1 else 2
    PAssertTrue        |-> 598, \* assert true; 1
    PAssertFalse       |-> 601, \* assert false; 1
    PNot               |-> 604, \* !true
    PAndInt            |-> 606, \* 1 && true
    POrInt             |-> 609, \* 1 || true
    PImplInt           |-> 612, \* 1 -> true
    PConcatInt         |-> 615, \* 1 ++ [ 2 ]
    PUpdateInt         |-> 619, \* 1 // { }
    PAddStrInt         |-> 622, \* "a" + 1
    PLessStr           |-> 625, \* 1 < "a"
    PNotInt            |-> 628, \* !1
    PIfInt             |-> 630, \* if 1 then 2 else 3
    PAssertInt         |-> 634, \* assert 1; 2
    PLetAdd            |-> 637, \* let x = 1; y = x + 1; in y
    PSub               |-> 647, \* 3 - 1
    PMul               |-> 650, \* 2 * 3
    PDiv               |-> 653, \* 6 / 2
    PNeg               |-> 656, \* -1
    PMapPartial        |-> 658, \* map (throw "x")
    PMapPartialEq      |-> 664, \* map (throw "x") == 1
    PFailedHas         |-> 672, \* let s = { a = throw "x"; }; in if s ? a.b then 1 else s.a
    PFailedDefault     |-> 690, \* let s = { a = throw "x"; }; in (s.a.b or 2) == s.a
    PInheritReentrant  |-> 709, \* rec { inherit (s) a; s = { a = a; }; }.a
    PInheritTwice      |-> 722, \* let t = { inherit ({ a = 1; }) a; }; in t.a == t.a
    PDeep              |-> 740, \* { a = { b = 1; }; c = [ 2 ]; }
    PDeepCycle         |-> 751, \* let x = { y = x; }; in x
    PDeepGrows         |-> 759, \* let s = { a = with s; let b = 2; in 1; }; in [ s ]
    PLamSet            |-> 774, \* x: { v = x; }
    PLamPattern        |-> 779, \* { a ? 1 }: a
    PApplyTwice        |-> 782, \* let f = x: { v = x; }; a = f 1; in (a ? v) && (f 2).v == 2 && a.v == 1
    PWithLam           |-> 814, \* let s = { a = 1; }; in with s; with s; x: a
    PListLet           |-> 827, \* [ (let y = 1; in y) y ]
    PMapFull           |-> 835, \* map (x: x + 1) [ 7 (throw "x") ]
    PMapSwapped        |-> 849, \* map [ 7 ] (x: x)
    PMapThrow          |-> 857, \* map (throw "f") [ 7 ]
    PMapPattern        |-> 866, \* map ({ a }: a) [ { a = 1; } ]
    PMapShared         |-> 877] \* let m = map (x: x + 1); in [ (m [ 1 ]) (m [ 2 (throw "x") ]) ]

Node(n) == Ast[n]

----------------------------------------------------------------------------
(* Values, thunk states and results.                                        *)

IntV(n) == [k |-> "Int", v |-> n]
BoolV(b) == [k |-> "Bool", v |-> b]
StrV(s) == [k |-> "String", v |-> s]
NullV == [k |-> "Null"]
SetV(id) == [k |-> "AttrSet", id |-> id]
ListV(items) == [k |-> "List", items |-> items]
LambdaV(scope, node) == [k |-> "Lambda", scope |-> scope, node |-> node]
\* A builtin with the (backtrace, scope, expression) triples it was supplied.
BuiltinV(name) == [k |-> "Builtin", name |-> name, params |-> <<>>]

Concrete(v) == [st |-> "Concrete", val |-> v]
Pending(bt, scope, expr) == [st |-> "Pending", bt |-> bt, scope |-> scope, expr |-> expr]
Eval(bt, scope, fn) == [st |-> "Eval", bt |-> bt, scope |-> scope, fn |-> fn]
Resolving(bt) == [st |-> "Resolving", bt |-> bt]

Ok(v) == [ok |-> TRUE, val |-> v]
Err(msg, labels) == [ok |-> FALSE, msg |-> msg, labels |-> labels]

EmptyMap == [x \in {} |-> 0]
MapPut(m, key, c) == [x \in (DOMAIN m) \cup {key} |-> IF x = key THEN c ELSE m[x]]
Range(f) == {f[x] : x \in DOMAIN f}

\* The control states.
CallEval(scope, bt, node) == [m |-> "eval", scope |-> scope, bt |-> bt, node |-> node]
CallResolve(cell, bt) == [m |-> "force", cell |-> cell, bt |-> bt]
CallResolveSet(cell, recursive, bt) ==
  [m |-> "deep", cell |-> cell, recursive |-> recursive, bt |-> bt]
CallClosure(fn, bt, scope) == [m |-> "closure", fn |-> fn, bt |-> bt, scope |-> scope]
Return(res) == [m |-> "ret", res |-> res]
Entries(scope, out, bt, node, idx) ==
  [m |-> "entries", scope |-> scope, out |-> out, bt |-> bt, node |-> node, idx |-> idx]
Panic(why) == [m |-> "panic", why |-> why]

Push(frame) == <<frame>> \o stack
Top == Head(stack)

Evaluating(kind) == ctl.m = "eval" /\ Node(ctl.node).k = kind
Returning(f) == ctl.m = "ret" /\ stack # <<>> /\ Top.f = f

HeapSame == UNCHANGED <<cells, sets, scopes, evals, asks>>
HostSame == UNCHANGED <<prog, forces, rootRes>>

----------------------------------------------------------------------------
(* Scope.                                                                   *)

\* A lookup that prefers the outermost binding of the name.
RECURSIVE get_variable_outermost(_, _)
get_variable_outermost(scope, varname) ==
  LET outer == IF scopes[scope].parent = 0
                 THEN 0
                 ELSE get_variable_outermost(scopes[scope].parent, varname)
  IN IF outer # 0
       THEN outer
       ELSE IF varname \in DOMAIN sets[scopes[scope].vars]
              THEN sets[scopes[scope].vars][varname]
              ELSE 0

RECURSIVE get_variable(_, _)
get_variable(scope, varname) ==
  IF varname \in DOMAIN sets[scopes[scope].vars]
    THEN sets[scopes[scope].vars][varname]
    ELSE IF scopes[scope].parent = 0
           THEN 0
           ELSE get_variable(scopes[scope].parent, varname)

\* An insert that lands in the variables of the parent scope.
set_variable_in_parent(scope, varname, value) ==
  [sets EXCEPT ![scopes[scopes[scope].parent].vars] = MapPut(@, varname, value)]

\* set_variable: the attribute sets after the insert into the variables of the
\* scope, and the thunk the insert returns (0 stands for None).
set_variable(scope, varname, value) ==
  [sets EXCEPT ![scopes[scope].vars] = MapPut(@, varname, value)]
displaced(scope, varname) ==
  IF varname \in DOMAIN sets[scopes[scope].vars] THEN sets[scopes[scope].vars][varname] ELSE 0

\* The scope new_child / new_child_from builds.
new_child_from(parent, variables) == [vars |-> variables, parent |-> parent]

\* new_with_builtins: the scope of the globals and its empty child, in which the
\* root expression is evaluated.  Of the globals only true, false, null, throw
\* and map are modelled.
Globals == [x \in {"true", "false", "null", "throw", "map"} |->
              CASE x = "true" -> 1 [] x = "false" -> 2 [] x = "null" -> 3 [] x = "throw" -> 4
                [] x = "map" -> 5]

Init ==
  /\ prog \in DOMAIN Programs
  /\ cells = << Concrete(BoolV(TRUE)), Concrete(BoolV(FALSE)), Concrete(NullV),
                Concrete(BuiltinV("throw")), Concrete(BuiltinV("map")) >>
  /\ sets = << Globals, EmptyMap >>
  /\ scopes = << new_child_from(0, 1), new_child_from(1, 2) >>
  /\ ctl = CallEval(2, 0, Programs[prog])
  /\ stack = <<>>
  /\ evals = <<0, 0, 0, 0, 0>>
  /\ asks = <<0, 0, 0, 0, 0>>
  /\ built = {}
  /\ forces = 0
  /\ rootRes = <<>>

----------------------------------------------------------------------------
(* LazyNixValue::resolve.                                                   *)

\* A slip in the write-back of resolve: the state taken out of the cell is put
\* back instead of the value.
MemoisedForgotten(frame, value) == frame.old

\* The state a cell is left in when its force has succeeded; `frame` is the
\* waiting resolve call, which holds the cell and the state `old` it was in.
Memoised(frame, value) == Concrete(value)

\* A slip in the error of a re-entered force: the label of the caller is left out.
InfiniteRecursionUnlabelled(cell, bt) == Err("InfiniteRecursion", <<cell.bt>>)

\* The error of a force that finds the cell Resolving: the first label is at the
\* span the thunk was defined with, the second at the span of the caller.
InfiniteRecursion(cell, bt) == Err("InfiniteRecursion", <<cell.bt, bt>>)

\* A force that leaves an Eval cell as it is while its closure runs.
ReplacedUnlessEval(cell) == IF cell.st = "Eval" THEN cell ELSE Resolving(cell.bt)

\* A force that leaves the cell as it is while it runs.
ReplacedByItself(cell) == cell

\* mem::replace at the start of a force: the cell holds Resolving, with the
\* backtrace the thunk was defined with, while its expression or closure runs.
Replaced(cell) == Resolving(cell.bt)

\* A force that puts the thunk back when it has failed.
FailedRestored(frame) == frame.old

\* The state a cell is left in when its force has failed: the `?` returns
\* before anything is written, so the cell stays as the force made it.
Failed(frame) == cells[frame.cell]

\* eval.borrow_mut().take(): the closure of an Eval cell, which is there until
\* it was invoked; <<>> stands for None.
take(c) == IF evals[c] = 0 THEN <<cells[c].fn>> ELSE <<>>

resolve ==
  /\ ctl.m = "force"
  /\ LET c == ctl.cell
         cell == cells[c]
     IN /\ asks' = [asks EXCEPT ![c] = @ + 1]
        /\ CASE cell.st = "Concrete" ->
                  /\ ctl' = Return(Ok(cell.val))
                  /\ UNCHANGED <<cells, stack, evals>>
             [] cell.st = "Resolving" ->
                  /\ ctl' = Return(InfiniteRecursion(cell, ctl.bt))
                  /\ UNCHANGED <<cells, stack, evals>>
             [] cell.st = "Pending" ->
                  /\ cells' = [cells EXCEPT ![c] = Replaced(cell)]
                  /\ stack' = Push([f |-> "Resolve", cell |-> c, old |-> cell])
                  /\ evals' = [evals EXCEPT ![c] = @ + 1]
                  /\ ctl' = CallEval(cell.scope, cell.bt, cell.expr)
             [] cell.st = "Eval" ->
                  /\ cells' = [cells EXCEPT ![c] = Replaced(cell)]
                  /\ stack' = Push([f |-> "Resolve", cell |-> c, old |-> cell])
                  /\ evals' = [evals EXCEPT ![c] = @ + 1]
                  /\ ctl' = IF take(c) = <<>>
                              THEN Panic("Eval cannot be called twice")
                              ELSE CallClosure(take(c)[1], cell.bt, cell.scope)
  /\ UNCHANGED <<sets, scopes, built>>
  /\ HostSame

\* The expression or closure of the cell has returned.
resolve_store ==
  /\ Returning("Resolve")
  /\ stack' = Tail(stack)
  /\ cells' = IF ctl.res.ok
                THEN [cells EXCEPT ![Top.cell] = Memoised(Top, ctl.res.val)]
                ELSE [cells EXCEPT ![Top.cell] = Failed(Top)]
  /\ UNCHANGED <<ctl, sets, scopes, evals, asks, built>>
  /\ HostSame

\* The calls of resolve_set that are waiting on the stack.
Deep == Cardinality({i \in 1..Len(stack) : stack[i].f \in {"ResolveSet", "ResolveSetEach"}})

\* resolve_set: the thunk is forced first.  A call for which the stack of the
\* process has no room ends the process.
resolve_set ==
  /\ ctl.m = "deep"
  /\ IF Deep >= MaxDeep
       THEN ctl' = Panic("stack overflow") /\ stack' = stack
       ELSE /\ stack' = Push([f |-> "ResolveSet", cell |-> ctl.cell,
                               recursive |-> ctl.recursive, bt |-> ctl.bt])
            /\ ctl' = CallResolve(ctl.cell, ctl.bt)
  /\ UNCHANGED built
  /\ HeapSame /\ HostSame

\* The thunks of a value in the order resolve_set collects them: the values of
\* an attribute set, in some order of the keys, or the elements of a list.
ValuesOf(v) ==
  CASE v.k = "AttrSet" ->
         LET m == sets[v.id]
             n == Cardinality(DOMAIN m)
         IN {[i \in 1..n |-> m[keys[i]]] :
               keys \in {f \in [1..n -> DOMAIN m] : \A i, j \in 1..n : f[i] = f[j] => i = j}}
    [] v.k = "List" -> {v.items}
    [] OTHER -> {<<>>}

\* resolve_set, the thunk has a value: its elements are collected.
resolve_set_values ==
  /\ Returning("ResolveSet")
  /\ IF ~ctl.res.ok
       THEN stack' = Tail(stack) /\ ctl' = ctl
       ELSE /\ \E values \in ValuesOf(ctl.res.val) :
                 stack' = <<[f |-> "ResolveSetEach", cell |-> Top.cell,
                             recursive |-> Top.recursive, bt |-> Top.bt,
                             value |-> ctl.res.val, values |-> values]>> \o Tail(stack)
            /\ ctl' = [m |-> "each"]
  /\ UNCHANGED built
  /\ HeapSame /\ HostSame

\* resolve_set, the loop over the elements: the next one is forced, deeply when
\* recursive; after the last one the value is returned.
resolve_set_each ==
  /\ ctl.m = "each"
  /\ IF Top.values = <<>>
       THEN stack' = Tail(stack) /\ ctl' = Return(Ok(Top.value))
       ELSE /\ stack' = <<[Top EXCEPT !.values = Tail(@)]>> \o Tail(stack)
            /\ ctl' = IF Top.recursive
                        THEN CallResolveSet(Head(Top.values), TRUE, Top.bt)
                        ELSE CallResolve(Head(Top.values), Top.bt)
  /\ UNCHANGED built
  /\ HeapSame /\ HostSame

\* resolve_set, an element was forced: its failure ends the loop.
resolve_set_next ==
  /\ Returning("ResolveSetEach")
  /\ IF ctl.res.ok
       THEN stack' = stack /\ ctl' = [m |-> "each"]
       ELSE stack' = Tail(stack) /\ ctl' = ctl
  /\ UNCHANGED built
  /\ HeapSame /\ HostSame

\* The closure of `inherit a;`.
inherit_closure ==
  /\ ctl.m = "closure" /\ ctl.fn.fk = "Inherit"
  /\ LET value == get_variable(ctl.scope, Node(ctl.fn.attr).name)
     IN ctl' = IF value = 0
                 THEN Return(Err("VariableNotFound", <<ctl.fn.attr>>))
                 ELSE CallResolve(value, ctl.bt)
  /\ UNCHANGED <<stack, built>>
  /\ HeapSame /\ HostSame

\* The closure of `inherit (from) a;`: first from.resolve ...
inherit_from_closure ==
  /\ ctl.m = "closure" /\ ctl.fn.fk = "InheritFrom"
  /\ stack' = Push([f |-> "InheritFrom", fn |-> ctl.fn, bt |-> ctl.bt])
  /\ ctl' = CallResolve(ctl.fn.from, ctl.bt)
  /\ UNCHANGED built
  /\ HeapSame /\ HostSame

\* ... then the key is read from the set and the thunk found is forced.
inherit_from_get ==
  /\ Returning("InheritFrom")
  /\ stack' = Tail(stack)
  /\ LET attr == Node(Top.fn.attr).name
     IN ctl' = IF ~ctl.res.ok
                 THEN ctl
                 ELSE IF ctl.res.val.k # "AttrSet"
                   THEN Panic("unwrap on None")
                   ELSE IF attr \notin DOMAIN sets[ctl.res.val.id]
                     THEN Return(Err("AttributeMissing", <<Top.fn.attr, Top.fn.fromExpr>>))
                     ELSE CallResolve(sets[ctl.res.val.id][attr], Top.bt)
  /\ UNCHANGED built
  /\ HeapSame /\ HostSame

----------------------------------------------------------------------------
(* Literals, identifiers, parentheses, lists, lambdas.                      *)

visit_literal ==
  /\ Evaluating("Int")
  /\ ctl' = Return(Ok(IntV(Node(ctl.node).v)))
  /\ UNCHANGED <<stack, built>>
  /\ HeapSame /\ HostSame

\* A string without interpolation.
visit_str ==
  /\ Evaluating("Str")
  /\ ctl' = Return(Ok(StrV(Node(ctl.node).v)))
  /\ UNCHANGED <<stack, built>>
  /\ HeapSame /\ HostSame

visit_ident ==
  /\ Evaluating("Ident")
  /\ LET value == get_variable(ctl.scope, Node(ctl.node).name)
     IN ctl' = IF value = 0
                 THEN Return(Err("VariableNotFound", <<ctl.node>>))
                 ELSE CallResolve(value, ctl.bt)
  /\ UNCHANGED <<stack, built>>
  /\ HeapSame /\ HostSame

visit_paren ==
  /\ Evaluating("Paren")
  /\ ctl' = CallEval(ctl.scope, ctl.bt, Node(ctl.node).expr)
  /\ UNCHANGED <<stack, built>>
  /\ HeapSame /\ HostSame

\* The thunk of a list element.
ListItem(scope, expr) == Pending(expr, scope, expr)

visit_list ==
  /\ Evaluating("List")
  /\ LET items == Node(ctl.node).items
         n == Len(cells)
     IN /\ cells' = cells \o [i \in 1..Len(items) |-> ListItem(ctl.scope, items[i])]
        /\ evals' = evals \o [i \in 1..Len(items) |-> 0]
        /\ asks' = asks \o [i \in 1..Len(items) |-> 0]
        /\ ctl' = Return(Ok(ListV([i \in 1..Len(items) |-> n + i])))
  /\ UNCHANGED <<sets, scopes, stack, built>>
  /\ HostSame

\* The lambda captures a fresh child of the current scope.
visit_lambda ==
  /\ Evaluating("Lambda")
  /\ sets' = Append(sets, EmptyMap)
  /\ scopes' = Append(scopes, new_child_from(ctl.scope, Len(sets) + 1))
  /\ ctl' = Return(Ok(LambdaV(Len(scopes) + 1, ctl.node)))
  /\ UNCHANGED <<cells, evals, asks, stack, built>>
  /\ HostSame

----------------------------------------------------------------------------
(* let-in, attribute sets and their entries.                                *)

\* visit_letin inserts the entries into the variables of the scope it runs in.
visit_letin ==
  /\ Evaluating("LetIn")
  /\ ctl' = Entries(ctl.scope, scopes[ctl.scope].vars, ctl.bt, ctl.node, 1)
  /\ UNCHANGED <<stack, built>>
  /\ HeapSame /\ HostSame

\* visit_attrset: a rec set is built as the variables of a new child scope, and
\* its entries are inserted by that scope; any other set is built apart.
visit_attrset ==
  /\ Evaluating("AttrSet")
  /\ sets' = Append(sets, EmptyMap)
  /\ IF Node(ctl.node).rec
       THEN /\ scopes' = Append(scopes, new_child_from(ctl.scope, Len(sets) + 1))
            /\ ctl' = Entries(Len(scopes) + 1, Len(sets) + 1, ctl.bt, ctl.node, 1)
       ELSE /\ scopes' = scopes
            /\ ctl' = Entries(ctl.scope, Len(sets) + 1, ctl.bt, ctl.node, 1)
  /\ UNCHANGED <<cells, evals, asks, stack, built>>
  /\ HostSame

InLoop == ctl.m = "entries" /\ ctl.idx <= Len(Node(ctl.node).entries)
LoopOver == ctl.m = "entries" /\ ctl.idx > Len(Node(ctl.node).entries)
EntryId == Node(ctl.node).entries[ctl.idx]

\* The backtrace insert_entry_to_attrset is called with: visit_letin pushes a
\* frame for the entry, visit_attrset passes its own.
EntryBt == IF Node(ctl.node).k = "LetIn" THEN EntryId ELSE ctl.bt

\* A thunk of `from` for every inherited name.
from_thunk_per_attr(n) == n

\* The thunks made for the `from` of an inherit of n names: one, shared.
from_thunk(n) == 1

\* The i-th thunk of `inherit a b;` / `inherit (from) a b;` run by `scope`;
\* fromCell is the shared thunk of `from`.
InheritThunk(scope, entry, i, fromCell) ==
  LET attr == Node(entry).attrs[i]
  IN IF Node(entry).from = 0
       THEN Eval(attr, scope, [fk |-> "Inherit", attr |-> attr])
       ELSE Eval(Node(entry).from, scope,
                 [fk |-> "InheritFrom", attr |-> attr, from |-> fromCell,
                  fromExpr |-> Node(entry).from])

\* insert_entry_to_attrset, Entry::Inherit: nothing is evaluated.
insert_inherit ==
  /\ InLoop /\ Node(EntryId).k = "Inherit"
  /\ LET e == Node(EntryId)
         hasFrom == e.from # 0
         n == Len(e.attrs)
         fromCells == IF hasFrom
                        THEN [j \in 1..from_thunk(n) |->
                                Pending(e.from, ctl.scope, Node(e.from).expr)]
                        ELSE <<>>
         base == Len(cells) + Len(fromCells)
         \* later inserts of one key replace earlier ones
         last(key) == CHOOSE i \in 1..n :
                        /\ Node(e.attrs[i]).name = key
                        /\ \A j \in 1..n : Node(e.attrs[j]).name = key => j <= i
         keys == {Node(e.attrs[i]).name : i \in 1..n}
         old == sets[ctl.out]
     IN /\ cells' = cells \o fromCells
                      \o [i \in 1..n |->
                            InheritThunk(ctl.scope, EntryId, i,
                                         Len(cells) + (IF i <= Len(fromCells) THEN i ELSE 1))]
        /\ evals' = evals \o [i \in 1..(Len(fromCells) + n) |-> 0]
        /\ asks' = asks \o [i \in 1..(Len(fromCells) + n) |-> 0]
        /\ sets' = [sets EXCEPT ![ctl.out] =
                      [x \in (DOMAIN old) \cup keys |->
                         IF x \in keys THEN base + last(x) ELSE old[x]]]
  /\ ctl' = [ctl EXCEPT !.idx = @ + 1]
  /\ UNCHANGED <<scopes, stack, built>>
  /\ HostSame

\* insert_entry_to_attrset, Entry::AttrpathValue: insert_to_attrset starts the
\* write-walk of the path at `out`.
insert_value ==
  /\ InLoop /\ Node(EntryId).k = "AttrpathValue"
  /\ ctl' = [m |-> "wwalk", scope |-> ctl.scope, out |-> ctl.out, bt |-> ctl.bt,
             node |-> ctl.node, idx |-> ctl.idx, seg |-> 1, cur |-> ctl.out]
  /\ UNCHANGED <<stack, built>>
  /\ HeapSame /\ HostSame

Walking == ctl.m = "wwalk"
WalkPath == Node(EntryId).path
WalkKey == Node(WalkPath[ctl.seg]).name

\* resolve_attr_set_path on a key the set does not have: an empty set is
\* inserted under it and the walk goes on inside it.
write_walk_vivify ==
  /\ Walking /\ ctl.seg < Len(WalkPath)
  /\ WalkKey \notin DOMAIN sets[ctl.cur]
  /\ cells' = Append(cells, Concrete(SetV(Len(sets) + 1)))
  /\ evals' = Append(evals, 0)
  /\ asks' = Append(asks, 0)
  /\ sets' = Append([sets EXCEPT ![ctl.cur] = MapPut(@, WalkKey, Len(cells) + 1)], EmptyMap)
  /\ ctl' = [ctl EXCEPT !.seg = @ + 1, !.cur = Len(sets) + 1]
  /\ UNCHANGED <<scopes, stack, built>>
  /\ HostSame

\* A walk that binds a new empty set to a key the set already has.
write_walk_replace ==
  /\ Walking /\ ctl.seg < Len(WalkPath)
  /\ WalkKey \in DOMAIN sets[ctl.cur]
  /\ cells' = Append(cells, Concrete(SetV(Len(sets) + 1)))
  /\ evals' = Append(evals, 0)
  /\ asks' = Append(asks, 0)
  /\ sets' = Append([sets EXCEPT ![ctl.cur] = MapPut(@, WalkKey, Len(cells) + 1)], EmptyMap)
  /\ ctl' = [ctl EXCEPT !.seg = @ + 1, !.cur = Len(sets) + 1]
  /\ UNCHANGED <<scopes, stack, built>>
  /\ HostSame

\* resolve_attr_set_path on a key the set has: the thunk bound to it is forced.
write_walk_force ==
  /\ Walking /\ ctl.seg < Len(WalkPath)
  /\ WalkKey \in DOMAIN sets[ctl.cur]
  /\ stack' = Push([f |-> "WriteWalk", ctl |-> ctl])
  /\ ctl' = CallResolve(sets[ctl.cur][WalkKey], EntryBt)
  /\ UNCHANGED built
  /\ HeapSame /\ HostSame

\* ... and the walk goes on inside its value, which has to be a set.
write_walk_enter ==
  /\ Returning("WriteWalk")
  /\ stack' = Tail(stack)
  /\ ctl' = IF ~ctl.res.ok
              THEN ctl
              ELSE IF ctl.res.val.k # "AttrSet"
                THEN Panic("todo: Error handling for value")
                ELSE [Top.ctl EXCEPT !.seg = @ + 1, !.cur = ctl.res.val.id]
  /\ UNCHANGED built
  /\ HeapSame /\ HostSame

\* The thunk insert_to_attrset binds to the last key of the path.
EntryThunk(scope, value) == Pending(value, scope, value)

\* A strict binding: the thunk is forced as soon as it is bound.
write_walk_insert_strict ==
  /\ Walking /\ ctl.seg = Len(WalkPath)
  /\ sets' = Append([sets EXCEPT ![ctl.cur] = MapPut(@, WalkKey, Len(cells) + 1)], EmptyMap)
  /\ scopes' = Append(scopes, new_child_from(ctl.scope, Len(sets) + 1))
  /\ cells' = Append(cells, EntryThunk(Len(scopes) + 1, Node(EntryId).value))
  /\ evals' = Append(evals, 0)
  /\ asks' = Append(asks, 0)
  /\ stack' = Push([f |-> "Strict", ctl |-> Entries(ctl.scope, ctl.out, ctl.bt, ctl.node, ctl.idx + 1)])
  /\ ctl' = CallResolve(Len(cells) + 1, EntryBt)
  /\ UNCHANGED built
  /\ HostSame

\* insert_to_attrset, after the walk: the value becomes a Pending thunk in a
\* new child of the inserting scope and is bound to the last key.
write_walk_insert ==
  /\ Walking /\ ctl.seg = Len(WalkPath)
  /\ sets' = Append([sets EXCEPT ![ctl.cur] = MapPut(@, WalkKey, Len(cells) + 1)], EmptyMap)
  /\ scopes' = Append(scopes, new_child_from(ctl.scope, Len(sets) + 1))
  /\ cells' = Append(cells, EntryThunk(Len(scopes) + 1, Node(EntryId).value))
  /\ evals' = Append(evals, 0)
  /\ asks' = Append(asks, 0)
  /\ ctl' = Entries(ctl.scope, ctl.out, ctl.bt, ctl.node, ctl.idx + 1)
  /\ UNCHANGED <<stack, built>>
  /\ HostSame

\* visit_letin, after the entries: the body runs in a new child scope.
letin_body ==
  /\ LoopOver /\ Node(ctl.node).k = "LetIn"
  /\ sets' = Append(sets, EmptyMap)
  /\ scopes' = Append(scopes, new_child_from(ctl.scope, Len(sets) + 1))
  /\ ctl' = CallEval(Len(scopes) + 1, Node(ctl.node).body, Node(ctl.node).body)
  /\ UNCHANGED <<cells, evals, asks, stack, built>>
  /\ HostSame

\* visit_attrset, after the entries: the set is the value.
attrset_return ==
  /\ LoopOver /\ Node(ctl.node).k = "AttrSet"
  /\ ctl' = Return(Ok(SetV(ctl.out)))
  /\ built' = built \cup {ctl.out}
  /\ UNCHANGED stack
  /\ HeapSame /\ HostSame

----------------------------------------------------------------------------
(* Select and the read-walk, with.                                          *)

visit_select ==
  /\ Evaluating("Select")
  /\ stack' = Push([f |-> "Select", scope |-> ctl.scope, bt |-> ctl.bt, node |-> ctl.node])
  /\ ctl' = CallEval(ctl.scope, ctl.bt, Node(ctl.node).expr)
  /\ UNCHANGED built
  /\ HeapSame /\ HostSame

ReadWalk(scope, bt, node, seg, val) ==
  [m |-> "rwalk", scope |-> scope, bt |-> bt, node |-> node, seg |-> seg, val |-> val]

\* What resolve_attr_path hands back: Err(e) is [outer |-> FALSE, err |-> e],
\* Ok(Err(e)) is [outer |-> TRUE, inner |-> FALSE, err |-> e] and Ok(Ok(var)) is
\* [outer |-> TRUE, inner |-> TRUE, var |-> var].
Walked(c, result) ==
  [m |-> "walked", scope |-> c.scope, bt |-> c.bt, node |-> c.node, result |-> result]

\* visit_select, the expression has a value: resolve_attr_path is called on it.
select_walk ==
  /\ Returning("Select")
  /\ stack' = Tail(stack)
  /\ ctl' = IF ctl.res.ok
              THEN ReadWalk(Top.scope, Top.bt, Top.node, 1, ctl.res.val)
              ELSE ctl
  /\ UNCHANGED built
  /\ HeapSame /\ HostSame

\* resolve_attr_path, one segment: the key is looked up in the resolved value;
\* when segments are left the thunk found is resolved for the next one.
read_walk_get ==
  /\ ctl.m = "rwalk"
  /\ LET path == Node(ctl.node).path
         attr == path[ctl.seg]
         key == Node(attr).name
     IN IF ctl.val.k # "AttrSet"
          THEN ctl' = Panic("todo: Error handling") /\ stack' = stack
          ELSE IF key \notin DOMAIN sets[ctl.val.id]
            THEN /\ ctl' = Walked(ctl, [outer |-> TRUE, inner |-> FALSE,
                                         err |-> Err("AttributeMissing", <<attr>>)])
                 /\ stack' = stack
            ELSE IF ctl.seg = Len(path)
              THEN /\ ctl' = Walked(ctl, [outer |-> TRUE, inner |-> TRUE,
                                           var |-> sets[ctl.val.id][key]])
                   /\ stack' = stack
              ELSE /\ ctl' = CallResolve(sets[ctl.val.id][key], ctl.bt)
                   /\ stack' = Push([f |-> "ReadWalk", ctl |-> ctl])
  /\ UNCHANGED built
  /\ HeapSame /\ HostSame

read_walk_next ==
  /\ Returning("ReadWalk")
  /\ stack' = Tail(stack)
  /\ ctl' = IF ctl.res.ok
              THEN ReadWalk(Top.ctl.scope, Top.ctl.bt, Top.ctl.node, Top.ctl.seg + 1,
                            ctl.res.val)
              ELSE Walked(Top.ctl, [outer |-> FALSE, err |-> ctl.res])
  /\ UNCHANGED built
  /\ HeapSame /\ HostSame

\* visit_select, after the walk: the default is taken when var.is_err(), else
\* the thunk found is forced.
select_finish ==
  /\ ctl.m = "walked" /\ Node(ctl.node).k = "Select"
  /\ LET r == ctl.result
     IN ctl' = IF ~r.outer /\ Node(ctl.node).default # 0
                 THEN CallEval(ctl.scope, ctl.bt, Node(ctl.node).default)
                 ELSE IF ~r.outer \/ ~r.inner
                   THEN Return(r.err)
                   ELSE CallResolve(r.var, ctl.bt)
  /\ UNCHANGED <<stack, built>>
  /\ HeapSame /\ HostSame

visit_hasattr ==
  /\ Evaluating("HasAttr")
  /\ stack' = Push([f |-> "HasAttr", scope |-> ctl.scope, bt |-> ctl.bt, node |-> ctl.node])
  /\ ctl' = CallEval(ctl.scope, ctl.bt, Node(ctl.node).expr)
  /\ UNCHANGED built
  /\ HeapSame /\ HostSame

\* visit_hasattr, the expression has a value: resolve_attr_path is called on it.
hasattr_walk ==
  /\ Returning("HasAttr")
  /\ stack' = Tail(stack)
  /\ ctl' = IF ctl.res.ok
              THEN ReadWalk(Top.scope, Top.bt, Top.node, 1, ctl.res.val)
              ELSE ctl
  /\ UNCHANGED built
  /\ HeapSame /\ HostSame

\* visit_hasattr, after the walk: is_ok() of what resolve_attr_path handed back.
hasattr_finish ==
  /\ ctl.m = "walked" /\ Node(ctl.node).k = "HasAttr"
  /\ ctl' = Return(Ok(BoolV(ctl.result.outer)))
  /\ UNCHANGED <<stack, built>>
  /\ HeapSame /\ HostSame

visit_with ==
  /\ Evaluating("With")
  /\ stack' = Push([f |-> "With", scope |-> ctl.scope, bt |-> ctl.bt, node |-> ctl.node])
  /\ ctl' = CallEval(ctl.scope, ctl.bt, Node(ctl.node).ns)
  /\ UNCHANGED built
  /\ HeapSame /\ HostSame

\* visit_with, the namespace has a value: it becomes the variables of the scope
\* the body runs in.
with_body ==
  /\ Returning("With")
  /\ stack' = Tail(stack)
  /\ IF ~ctl.res.ok
       THEN UNCHANGED <<ctl, scopes>>
       ELSE IF ctl.res.val.k # "AttrSet"
         THEN ctl' = Panic("todo: Error handling") /\ scopes' = scopes
         ELSE /\ scopes' = Append(scopes, new_child_from(Top.scope, ctl.res.val.id))
              /\ ctl' = CallEval(Len(scopes) + 1, Top.bt, Node(Top.node).body)
  /\ UNCHANGED <<cells, sets, evals, asks, built>>
  /\ HostSame

----------------------------------------------------------------------------
(* Application.                                                             *)

visit_apply ==
  /\ Evaluating("Apply")
  /\ stack' = Push([f |-> "Apply", scope |-> ctl.scope, bt |-> ctl.bt, node |-> ctl.node])
  /\ ctl' = CallEval(ctl.scope, ctl.node, Node(ctl.node).fn)
  /\ UNCHANGED built
  /\ HeapSame /\ HostSame

Applying(kind) == Returning("Apply") /\ ctl.res.ok /\ ctl.res.val.k = kind

\* visit_apply, the callee failed or is no function.
apply_other ==
  /\ Returning("Apply")
  /\ IF ctl.res.ok THEN ctl.res.val.k \notin {"Lambda", "Builtin"} ELSE TRUE
  /\ stack' = Tail(stack)
  /\ ctl' = IF ctl.res.ok THEN Panic("todo: Error handling") ELSE ctl
  /\ UNCHANGED built
  /\ HeapSame /\ HostSame

\* An application that evaluates the argument instead of handing it over.
apply_builtin_forced ==
  /\ Applying("Builtin")
  /\ stack' = Tail(stack)
  /\ ctl' = CallEval(Top.scope, Top.bt, Node(Top.node).arg)
  /\ UNCHANGED built
  /\ HeapSame /\ HostSame

\* visit_apply, the callee is a builtin: the argument goes to it as written.
apply_builtin ==
  /\ Applying("Builtin")
  /\ stack' = Tail(stack)
  /\ ctl' = [m |-> "builtin", name |-> ctl.res.val.name, params |-> ctl.res.val.params,
             scope |-> Top.scope, bt |-> Top.bt, argument |-> Node(Top.node).arg]
  /\ UNCHANGED built
  /\ HeapSame /\ HostSame

\* The thunk an identifier parameter is bound to.
ArgThunk(scope, argument) == Pending(argument, scope, argument)

\* visit_apply, the callee is a lambda with an identifier parameter.
apply_ident ==
  /\ Applying("Lambda") /\ Node(ctl.res.val.node).param.pk = "Ident"
  /\ LET lam == ctl.res.val
     IN /\ stack' = Tail(stack)
        /\ cells' = Append(cells, ArgThunk(Top.scope, Node(Top.node).arg))
        /\ evals' = Append(evals, 0)
        /\ asks' = Append(asks, 0)
        /\ sets' = Append(sets, MapPut(EmptyMap, Node(lam.node).param.name, Len(cells) + 1))
        /\ scopes' = Append(scopes, new_child_from(lam.scope, Len(sets) + 1))
        /\ ctl' = CallEval(Len(scopes) + 1, Top.bt, Node(lam.node).body)
  /\ UNCHANGED built
  /\ HostSame

\* visit_apply, the callee is a lambda with a pattern: the argument is evaluated.
apply_pattern ==
  /\ Applying("Lambda") /\ Node(ctl.res.val.node).param.pk = "Pattern"
  /\ sets' = Append(sets, EmptyMap)
  /\ scopes' = Append(scopes, new_child_from(ctl.res.val.scope, Len(sets) + 1))
  /\ stack' = <<[f |-> "Argument", self |-> Top.scope, bt |-> Top.bt,
                 scope |-> Len(scopes) + 1, lambda |-> ctl.res.val.node]>> \o Tail(stack)
  /\ ctl' = CallEval(Top.scope, Top.bt, Node(Top.node).arg)
  /\ UNCHANGED <<cells, evals, asks, built>>
  /\ HostSame

PatLoop(scope, bt, lambda, argument, idx, unused) ==
  [m |-> "pattern", scope |-> scope, bt |-> bt, lambda |-> lambda,
   argument |-> argument, idx |-> idx, unused |-> unused]

\* The keys of the argument that are still unused: <<>> stands for None (the
\* pattern has an ellipsis), <<keys>> for Some(keys).
Unused(pattern, argument) ==
  IF pattern.ellipsis THEN <<>> ELSE << DOMAIN sets[argument] >>

\* visit_apply, the argument has a value: `@ name` is bound to it.
pattern_bind ==
  /\ Returning("Argument")
  /\ stack' = Tail(stack)
  /\ LET pattern == Node(Top.lambda).param
     IN IF ~ctl.res.ok
          THEN UNCHANGED <<ctl, cells, evals, asks, sets>>
          ELSE IF ctl.res.val.k # "AttrSet"
            THEN ctl' = Panic("todo: Error handling") /\ UNCHANGED <<cells, evals, asks, sets>>
            ELSE /\ ctl' = PatLoop(Top.scope, Top.bt, Top.lambda, ctl.res.val.id, 1,
                                   Unused(pattern, ctl.res.val.id))
                 /\ IF pattern.bind # ""
                      THEN /\ cells' = Append(cells, Concrete(ctl.res.val))
                           /\ evals' = Append(evals, 0)
                           /\ asks' = Append(asks, 0)
                           /\ sets' = [sets EXCEPT ![scopes[Top.scope].vars] =
                                         MapPut(@, pattern.bind, Len(cells) + 1)]
                      ELSE UNCHANGED <<cells, evals, asks, sets>>
  /\ UNCHANGED <<scopes, built>>
  /\ HostSame

InPattern == ctl.m = "pattern" /\ ctl.idx <= Len(Node(ctl.lambda).param.entries)
PatEntry == Node(ctl.lambda).param.entries[ctl.idx]
Used(unused, varname) == IF unused = <<>> THEN <<>> ELSE << unused[1] \ {varname} >>

\* One pat-entry the argument has a key for: the name is bound to its thunk.
pattern_entry_given ==
  /\ InPattern /\ PatEntry.name \in DOMAIN sets[ctl.argument]
  /\ sets' = [sets EXCEPT ![scopes[ctl.scope].vars] =
                MapPut(@, PatEntry.name, sets[ctl.argument][PatEntry.name])]
  /\ ctl' = [ctl EXCEPT !.idx = @ + 1, !.unused = Used(@, PatEntry.name)]
  /\ UNCHANGED <<cells, evals, asks, scopes, stack, built>>
  /\ HostSame

\* One pat-entry the argument has no key for: its default is evaluated at once,
\* in the scope of the call; without a default the evaluator stops.
pattern_entry_absent ==
  /\ InPattern /\ PatEntry.name \notin DOMAIN sets[ctl.argument]
  /\ IF PatEntry.default # 0
       THEN /\ stack' = Push([f |-> "Default", ctl |-> [ctl EXCEPT !.unused = Used(@, PatEntry.name)]])
            /\ ctl' = CallEval(ctl.scope, ctl.bt, PatEntry.default)
       ELSE /\ stack' = stack
            /\ ctl' = Panic("todo: Require")
  /\ UNCHANGED built
  /\ HeapSame /\ HostSame

\* The default has a value: the name is bound to a Concrete thunk of it.
pattern_default ==
  /\ Returning("Default")
  /\ stack' = Tail(stack)
  /\ IF ~ctl.res.ok
       THEN UNCHANGED <<ctl, cells, evals, asks, sets>>
       ELSE LET c == Top.ctl
                entry == Node(c.lambda).param.entries[c.idx]
            IN /\ cells' = Append(cells, Concrete(ctl.res.val))
               /\ evals' = Append(evals, 0)
               /\ asks' = Append(asks, 0)
               /\ sets' = [sets EXCEPT ![scopes[c.scope].vars] =
                             MapPut(@, entry.name, Len(cells) + 1)]
               /\ ctl' = [c EXCEPT !.idx = @ + 1]
  /\ UNCHANGED <<scopes, built>>
  /\ HostSame

\* After the pat-entries: keys left unused stop the evaluator, else the body runs.
pattern_body ==
  /\ ctl.m = "pattern" /\ ctl.idx > Len(Node(ctl.lambda).param.entries)
  /\ ctl' = IF ctl.unused # <<>> /\ ctl.unused[1] # {}
              THEN Panic("todo: Handle error: Unused keys")
              ELSE CallEval(ctl.scope, ctl.bt, Node(ctl.lambda).body)
  /\ UNCHANGED <<stack, built>>
  /\ HeapSame /\ HostSame

\* The number of parameters the builtin is declared with.
Arity == [throw |-> 1, map |-> 2]

\* A partial application that stores the triple in the builtin it is applied
\* to, wherever a thunk holds it.
builtin_partial_in_place ==
  /\ ctl.m = "builtin" /\ Len(ctl.params) + 1 < Arity[ctl.name]
  /\ LET old == [k |-> "Builtin", name |-> ctl.name, params |-> ctl.params]
         new == [k |-> "Builtin", name |-> ctl.name,
                 params |-> Append(ctl.params, [bt |-> ctl.bt, scope |-> ctl.scope,
                                                argument |-> ctl.argument])]
     IN /\ ctl' = Return(Ok(new))
        /\ cells' = [c \in DOMAIN cells |->
                       IF cells[c] = Concrete(old) THEN Concrete(new) ELSE cells[c]]
  /\ UNCHANGED <<sets, scopes, evals, asks, stack, built>>
  /\ HostSame

\* The run of a builtin that is not given its last parameter yet: the
\* (backtrace, scope, argument) triple is stored as it is in a new Builtin.
builtin_partial ==
  /\ ctl.m = "builtin" /\ Len(ctl.params) + 1 < Arity[ctl.name]
  /\ ctl' = Return(Ok([k |-> "Builtin", name |-> ctl.name,
                       params |-> Append(ctl.params,
                                         [bt |-> ctl.bt, scope |-> ctl.scope,
                                          argument |-> ctl.argument])]))
  /\ UNCHANGED <<stack, built>>
  /\ HeapSame /\ HostSame

\* The kinds of value the parameters of map are declared with.
Declared == [map |-> <<{"Lambda"}, {"List"}>>]

\* The arguments in the order the body is given them.
ArgumentsReversed(converted) == [i \in DOMAIN converted |-> converted[Len(converted) + 1 - i]]
Arguments(converted) == converted

\* The run of a builtin that is given its last parameter: the stored triples
\* and then the triple of this application are going to be converted, in the
\* order of the parameters.
builtin_last ==
  /\ ctl.m = "builtin" /\ ctl.name = "map" /\ Len(ctl.params) + 1 = Arity[ctl.name]
  /\ stack' = Push([f |-> "Convert", name |-> ctl.name, bt |-> ctl.bt,
                    triples |-> Append(ctl.params, [bt |-> ctl.bt, scope |-> ctl.scope,
                                                    argument |-> ctl.argument]),
                    converted |-> <<>>])
  /\ ctl' = [m |-> "convert"]
  /\ UNCHANGED built
  /\ HeapSame /\ HostSame

\* from_nix_expr of the next parameter: its expression is evaluated in the scope
\* it was supplied in.  After the last one the body is called.
builtin_convert ==
  /\ ctl.m = "convert"
  /\ LET n == Len(Top.converted) + 1
     IN IF n > Len(Top.triples)
          THEN /\ stack' = Tail(stack)
               /\ ctl' = [m |-> "body", name |-> Top.name, bt |-> Top.bt,
                          args |-> Arguments(Top.converted)]
          ELSE /\ stack' = stack
               /\ ctl' = CallEval(Top.triples[n].scope, Top.triples[n].bt,
                                  Top.triples[n].argument)
  /\ UNCHANGED built
  /\ HeapSame /\ HostSame

\* from_nix_expr, the expression has a value: it is coerced to the declared
\* type; a failure leaves the builtin (the `?`).
builtin_converted ==
  /\ Returning("Convert")
  /\ LET n == Len(Top.converted) + 1
     IN IF ~ctl.res.ok
          THEN stack' = Tail(stack) /\ ctl' = ctl
          ELSE IF ctl.res.val.k \notin Declared[Top.name][n]
            THEN stack' = Tail(stack) /\ ctl' = Return(Err("TypeError", <<Top.triples[n].argument>>))
            ELSE /\ stack' = <<[Top EXCEPT !.converted = Append(@, ctl.res.val)]>> \o Tail(stack)
                 /\ ctl' = [m |-> "convert"]
  /\ UNCHANGED built
  /\ HeapSame /\ HostSame

\* new_callback_eval: the thunk of one application of the callback, whose
\* scope is a new child of the scope the lambda captured.
CallbackEval(backtrace, callback, value, scope) ==
  Eval(Node(callback.node).body, scope,
       [fk |-> "Callback", lambda |-> callback.node, value |-> value])

\* The body of map: a list with a callback thunk for every element.
builtin_map ==
  /\ ctl.m = "body" /\ ctl.name = "map"
  /\ LET callback == ctl.args[1]
         items == ctl.args[2].items
         n == Len(items)
     IN /\ sets' = sets \o [i \in 1..n |-> EmptyMap]
        /\ scopes' = scopes \o [i \in 1..n |-> new_child_from(callback.scope, Len(sets) + i)]
        /\ cells' = cells \o [i \in 1..n |->
                                CallbackEval(ctl.bt, callback, items[i], Len(scopes) + i)]
        /\ evals' = evals \o [i \in 1..n |-> 0]
        /\ asks' = asks \o [i \in 1..n |-> 0]
        /\ ctl' = Return(Ok(ListV([i \in 1..n |-> Len(cells) + i])))
  /\ UNCHANGED <<stack, built>>
  /\ HostSame

\* The closure of new_callback_eval: the parameter is bound to the element in
\* the scope of the thunk and the body of the lambda is evaluated there.
callback_closure ==
  /\ ctl.m = "closure" /\ ctl.fn.fk = "Callback"
  /\ LET param == Node(ctl.fn.lambda).param
     IN IF param.pk = "Ident"
          THEN /\ sets' = set_variable(ctl.scope, param.name, ctl.fn.value)
               /\ ctl' = CallEval(ctl.scope, ctl.bt, Node(ctl.fn.lambda).body)
          ELSE /\ sets' = sets
               /\ ctl' = Return(Err("Todo", <<Node(ctl.fn.lambda).body>>))
  /\ UNCHANGED <<cells, scopes, evals, asks, stack, built>>
  /\ HostSame

\* The builtin throw: its argument is evaluated to the message ...
builtin_throw ==
  /\ ctl.m = "builtin" /\ ctl.name = "throw" /\ Len(ctl.params) + 1 = Arity[ctl.name]
  /\ stack' = Push([f |-> "Throw"])
  /\ ctl' = CallEval(ctl.scope, ctl.bt, ctl.argument)
  /\ UNCHANGED built
  /\ HeapSame /\ HostSame

\* ... and the result is an error with that message.
builtin_throw_raise ==
  /\ Returning("Throw")
  /\ stack' = Tail(stack)
  /\ ctl' = IF ctl.res.ok THEN Return(Err("Throw", <<>>)) ELSE ctl
  /\ UNCHANGED built
  /\ HeapSame /\ HostSame

----------------------------------------------------------------------------
(* Binary operators.                                                        *)

\* The derived PartialEq of NixValue: the same variant with equal payloads.
\* The payload of an AttrSet or a List is made of NixVars, and two NixVars are
\* equal when they are the same cell (var.rs, impl PartialEq for NixVar).
ValueEq(a, b) ==
  /\ a.k = b.k
  /\ CASE a.k = "AttrSet" -> sets[a.id] = sets[b.id]
       [] a.k = "List" -> a.items = b.items
       [] a.k = "Null" -> TRUE
       [] a.k \in {"Int", "Bool", "String"} -> a.v = b.v
       [] OTHER -> a = b

\* AsString for NixValue: <<>> stands for None.
as_string(v) ==
  CASE v.k = "Bool" -> << IF v.v THEN "1" ELSE "" >>
    [] v.k = "Null" -> << "" >>
    [] v.k = "String" -> << v.v >>
    [] OTHER -> <<>>

\* An update in which the left operand wins.
UpdatedLeftFirst(l, r) == [x \in (DOMAIN l) \cup (DOMAIN r) |-> IF x \in DOMAIN l THEN l[x] ELSE r[x]]

\* `l // r` on the maps of the two sets.
Updated(l, r) == [x \in (DOMAIN l) \cup (DOMAIN r) |-> IF x \in DOMAIN r THEN r[x] ELSE l[x]]

\* An evaluator that always goes on to the right operand.
NeedsRhsAlways(operator, left) == TRUE

\* `&&`, `->` and `||` on a Bool left operand: whether the right operand is
\* evaluated (and is the result) ...
NeedsRhs(operator, left) == IF operator = "Or" THEN ~left ELSE left

\* ... and the result when it is not.
ShortCircuited(operator) == BoolV(operator # "And")

visit_binop ==
  /\ Evaluating("BinOp")
  /\ stack' = Push([f |-> "BinLhs", scope |-> ctl.scope, bt |-> ctl.bt, node |-> ctl.node])
  /\ ctl' = CallEval(ctl.scope, ctl.bt, Node(ctl.node).lhs)
  /\ UNCHANGED built
  /\ HeapSame /\ HostSame

\* visit_binop, the left operand has a value.
binop_lhs ==
  /\ Returning("BinLhs")
  /\ LET op == Node(Top.node).op
         lhs == ctl.res.val
         rhs == CallEval(Top.scope, Top.bt, Node(Top.node).rhs)
         todo == Return(Err("Todo", <<Top.node>>))
         wait(locals) == <<[f |-> "BinRhs", node |-> Top.node, lhs |-> locals]>> \o Tail(stack)
         stop == Panic("todo: Error handling")
     IN IF ~ctl.res.ok
          THEN ctl' = ctl /\ stack' = Tail(stack)
          ELSE CASE op \in {"Equal", "NotEqual"} ->
                      ctl' = rhs /\ stack' = wait(lhs)
                 [] op = "Add" ->
                      IF lhs.k = "String"
                        THEN ctl' = rhs /\ stack' = wait(lhs)
                        ELSE ctl' = todo /\ stack' = Tail(stack)
                 [] op = "Less" ->
                      IF lhs.k = "Int"
                        THEN ctl' = rhs /\ stack' = wait(lhs)
                        ELSE ctl' = todo /\ stack' = Tail(stack)
                 [] op = "Concat" ->
                      IF lhs.k = "List"
                        THEN ctl' = rhs /\ stack' = wait(lhs)
                        ELSE ctl' = stop /\ stack' = Tail(stack)
                 [] op = "Update" ->
                      IF lhs.k = "AttrSet"
                        THEN ctl' = rhs /\ stack' = wait(sets[lhs.id])
                        ELSE ctl' = stop /\ stack' = Tail(stack)
                 [] op \in {"And", "Implication", "Or"} ->
                      /\ stack' = Tail(stack)
                      /\ ctl' = IF lhs.k # "Bool" THEN stop
                                ELSE IF NeedsRhs(op, lhs.v) THEN rhs
                                ELSE Return(Ok(ShortCircuited(op)))
                 [] OTHER -> \* Sub, Mul, Div, LessOrEq, More, MoreOrEq
                      ctl' = todo /\ stack' = Tail(stack)
  /\ UNCHANGED built
  /\ HeapSame /\ HostSame

\* visit_binop, the right operand has a value.
binop_rhs ==
  /\ Returning("BinRhs")
  /\ stack' = Tail(stack)
  /\ LET op == Node(Top.node).op
         lhs == Top.lhs
         rhs == ctl.res.val
         stop == Panic("todo: Error handling")
     IN IF ~ctl.res.ok
          THEN UNCHANGED <<ctl, sets, built>>
          ELSE IF op = "Update" /\ rhs.k = "AttrSet"
            THEN /\ sets' = Append(sets, Updated(lhs, sets[rhs.id]))
                 /\ built' = built \cup {Len(sets) + 1}
                 /\ ctl' = Return(Ok(SetV(Len(sets) + 1)))
            ELSE /\ UNCHANGED <<sets, built>>
                 /\ ctl' = CASE op = "Equal" -> Return(Ok(BoolV(ValueEq(rhs, lhs))))
                             [] op = "NotEqual" -> Return(Ok(BoolV(~ValueEq(rhs, lhs))))
                             [] op = "Add" ->
                                  IF as_string(rhs) = <<>>
                                    THEN stop
                                    ELSE Return(Ok(StrV(lhs.v \o as_string(rhs)[1])))
                             [] op = "Less" ->
                                  IF rhs.k = "Int"
                                    THEN Return(Ok(BoolV(lhs.v < rhs.v)))
                                    ELSE stop
                             [] op = "Concat" ->
                                  IF rhs.k = "List"
                                    THEN Return(Ok(ListV(lhs.items \o rhs.items)))
                                    ELSE stop
                             [] OTHER -> stop
  /\ UNCHANGED <<cells, scopes, evals, asks>>
  /\ HostSame

----------------------------------------------------------------------------
(* Conditionals, assertions, unary operators.                               *)

visit_ifelse ==
  /\ Evaluating("IfElse")
  /\ stack' = Push([f |-> "IfElse", scope |-> ctl.scope, bt |-> ctl.bt, node |-> ctl.node])
  /\ ctl' = CallEval(ctl.scope, ctl.bt, Node(ctl.node).cond)
  /\ UNCHANGED built
  /\ HeapSame /\ HostSame

\* visit_ifelse, the condition has a value: one of the branches is the result.
ifelse_branch ==
  /\ Returning("IfElse")
  /\ stack' = Tail(stack)
  /\ LET condition == ctl.res.val
         n == Node(Top.node)
     IN ctl' = IF ~ctl.res.ok
                 THEN ctl
                 ELSE IF condition.k # "Bool"
                   THEN Panic("todo: Error handling")
                   ELSE CallEval(Top.scope, Top.bt, IF condition.v THEN n.body ELSE n.else)
  /\ UNCHANGED built
  /\ HeapSame /\ HostSame

visit_assert ==
  /\ Evaluating("Assert")
  /\ stack' = Push([f |-> "Assert", scope |-> ctl.scope, bt |-> ctl.bt, node |-> ctl.node])
  /\ ctl' = CallEval(ctl.scope, ctl.bt, Node(ctl.node).cond)
  /\ UNCHANGED built
  /\ HeapSame /\ HostSame

\* visit_assert, the condition has a value: the body is the result when it is
\* true, and the error `assert failed`, labelled at the condition, when false.
assert_body ==
  /\ Returning("Assert")
  /\ stack' = Tail(stack)
  /\ LET condition == ctl.res.val
         n == Node(Top.node)
     IN ctl' = IF ~ctl.res.ok
                 THEN ctl
                 ELSE IF condition.k # "Bool"
                   THEN Panic("todo: Error handling")
                   ELSE IF condition.v
                     THEN CallEval(Top.scope, Top.bt, n.body)
                     ELSE Return(Err("AssertionFailed", <<n.cond>>))
  /\ UNCHANGED built
  /\ HeapSame /\ HostSame

visit_unaryop ==
  /\ Evaluating("UnaryOp")
  /\ stack' = Push([f |-> "UnaryOp", node |-> ctl.node])
  /\ ctl' = CallEval(ctl.scope, ctl.bt, Node(ctl.node).expr)
  /\ UNCHANGED built
  /\ HeapSame /\ HostSame

\* visit_unaryop, the operand has a value.
unaryop_apply ==
  /\ Returning("UnaryOp")
  /\ stack' = Tail(stack)
  /\ LET value == ctl.res.val
     IN ctl' = IF ~ctl.res.ok
                 THEN ctl
                 ELSE IF Node(Top.node).op = "Invert"
                   THEN IF value.k # "Bool"
                          THEN Panic("todo: Error handling")
                          ELSE Return(Ok(BoolV(~value.v)))
                   ELSE Return(Err("Todo", <<Top.node>>))
  /\ UNCHANGED built
  /\ HeapSame /\ HostSame

----------------------------------------------------------------------------
(* The host: it receives the value of the root expression and forces thunks *)
(* it can reach from it.                                                    *)

finish ==
  /\ ctl.m = "ret" /\ stack = <<>>
  /\ ctl' = [m |-> "done", res |-> ctl.res]
  /\ rootRes' = IF rootRes = <<>> THEN <<ctl.res>> ELSE rootRes
  /\ UNCHANGED <<prog, forces, stack, built>>
  /\ HeapSame

\* The thunks a value holds.
VarsOf(v) ==
  CASE v.k = "AttrSet" -> Range(sets[v.id])
    [] v.k = "List" -> Range(v.items)
    [] OTHER -> {}

RECURSIVE Reach(_, _)
Reach(frontier, seen) ==
  IF frontier \subseteq seen
    THEN seen
    ELSE LET new == frontier \ seen
             inside(c) == IF cells[c].st = "Concrete" THEN VarsOf(cells[c].val) ELSE {}
         IN Reach(UNION {inside(c) : c \in new}, seen \cup new)

\* The thunks the host can get at: those of the values it was returned and of
\* the values of the forced thunks among them.
HostVars ==
  Reach(UNION {VarsOf(rootRes[i].val) : i \in {j \in DOMAIN rootRes : rootRes[j].ok}}, {})

host_resolve ==
  /\ ctl.m = "done"
  /\ forces < MaxHostForces
  /\ \E c \in HostVars : ctl' = CallResolve(c, 0)
  /\ forces' = forces + 1
  /\ UNCHANGED <<prog, rootRes, stack, built>>
  /\ HeapSame

\* NixVar::resolve_set, called by the host on a thunk it holds.
host_resolve_set ==
  /\ ctl.m = "done"
  /\ forces < MaxHostForces
  /\ \E c \in HostVars, recursive \in BOOLEAN : ctl' = CallResolveSet(c, recursive, 0)
  /\ forces' = forces + 1
  /\ UNCHANGED <<prog, rootRes, stack, built>>
  /\ HeapSame

\* The argument the host passes in its n-th call.
HostArgument(n) == IntV(n)

\* NixLambda::call, called by the host on the lambda the root expression
\* returned: an identifier parameter is bound in the scope the lambda captured
\* and the body is evaluated in that scope; for a pattern the argument is
\* resolved first.
host_call ==
  /\ ctl.m = "done"
  /\ rootRes # <<>> /\ rootRes[1].ok /\ rootRes[1].val.k = "Lambda"
  /\ Len(rootRes) - 1 < MaxHostCalls
  /\ LET lam == rootRes[1].val
         param == Node(lam.node).param
         value == Len(cells) + 1
     IN /\ cells' = Append(cells, Concrete(HostArgument(Len(rootRes))))
        /\ evals' = Append(evals, 0)
        /\ asks' = Append(asks, 0)
        /\ IF param.pk = "Ident"
             THEN /\ sets' = set_variable(lam.scope, param.name, value)
                  /\ stack' = Push([f |-> "HostCall"])
                  /\ ctl' = CallEval(lam.scope, 0, Node(lam.node).body)
             ELSE /\ sets' = sets
                  /\ stack' = <<[f |-> "Argument", self |-> lam.scope, bt |-> 0,
                                 scope |-> lam.scope, lambda |-> lam.node],
                                [f |-> "HostCall"]>>
                  /\ ctl' = CallResolve(value, 0)
  /\ UNCHANGED <<scopes, built>>
  /\ HostSame

\* The call has returned to the host, which keeps the result.
host_call_return ==
  /\ Returning("HostCall")
  /\ stack' = Tail(stack)
  /\ ctl' = [m |-> "done", res |-> ctl.res]
  /\ rootRes' = Append(rootRes, ctl.res)
  /\ UNCHANGED <<prog, forces, built>>
  /\ HeapSame

----------------------------------------------------------------------------

Next ==
  \/ resolve \/ resolve_store
  \/ inherit_closure \/ inherit_from_closure \/ inherit_from_get
  \/ visit_literal \/ visit_str \/ visit_ident \/ visit_paren \/ visit_list \/ visit_lambda
  \/ visit_letin \/ visit_attrset \/ insert_inherit \/ insert_value
  \/ write_walk_vivify \/ write_walk_force \/ write_walk_enter \/ write_walk_insert
  \/ letin_body \/ attrset_return
  \/ visit_select \/ select_walk \/ read_walk_get \/ read_walk_next \/ select_finish
  \/ visit_hasattr \/ hasattr_walk \/ hasattr_finish
  \/ visit_with \/ with_body
  \/ visit_apply \/ apply_other \/ apply_builtin \/ apply_ident \/ apply_pattern
  \/ pattern_bind \/ pattern_entry_given \/ pattern_entry_absent \/ pattern_default
  \/ pattern_body
  \/ builtin_partial \/ builtin_last \/ builtin_convert \/ builtin_converted
  \/ builtin_map \/ callback_closure
  \/ builtin_throw \/ builtin_throw_raise
  \/ visit_binop \/ binop_lhs \/ binop_rhs
  \/ visit_ifelse \/ ifelse_branch \/ visit_assert \/ assert_body
  \/ visit_unaryop \/ unaryop_apply
  \/ resolve_set \/ resolve_set_values \/ resolve_set_each \/ resolve_set_next
  \/ finish \/ host_resolve \/ host_resolve_set \/ host_call \/ host_call_return

Spec == Init /\ [][Next]_vars

Done == ctl.m = "done"
Aborted == ctl.m = "panic"


----------------------------------------------------------------------------
(* Properties.                                                              *)

Returned == rootRes # <<>>
RootIs(p, res) == (prog = p /\ Returned) => rootRes = <<res>>
Old == DOMAIN cells
New == (DOMAIN cells') \ (DOMAIN cells)

\* C1 (memoisation): the expression or closure of a thunk is invoked at most
\* once, however often and by whichever route the thunk is forced; a Concrete
\* thunk stays as it is, and a force of it returns the stored value and invokes
\* nothing.
Memoisation ==
  /\ [](\A c \in DOMAIN cells : evals[c] <= 1)
  /\ [][\A c \in Old :
          cells[c].st = "Concrete" =>
            /\ cells'[c] = cells[c]
            /\ evals'[c] = evals[c]
            /\ (ctl.m = "force" /\ ctl.cell = c) =>
                 /\ ctl' = Return(Ok(cells[c].val))
                 /\ \A d \in Old : evals'[d] = evals[d]]_vars

\* A thunk that was forced more than once and evaluated once.
MemoisationSeen ==
  \E c \in DOMAIN cells :
    /\ asks[c] >= 2
    /\ evals[c] = 1
    /\ cells[c].st = "Concrete"

\* The steps that build a let-in, an attribute set or a list, or bind the
\* argument of a lambda with an identifier parameter.
Constructing ==
  \/ ctl.m \in {"entries", "wwalk"}
  \/ ctl.m = "eval" /\ Node(ctl.node).k \in {"LetIn", "AttrSet", "List"}
  \/ Applying("Lambda") /\ Node(ctl.res.val.node).param.pk = "Ident"

\* The write-walk stands at a non-final segment that names a key already bound.
WalkOnExisting ==
  /\ Walking /\ ctl.seg < Len(WalkPath)
  /\ WalkKey \in DOMAIN sets[ctl.cur]

\* The write-walk stands at a non-final segment that names no key yet.
WalkOnAbsent ==
  /\ Walking /\ ctl.seg < Len(WalkPath)
  /\ WalkKey \notin DOMAIN sets[ctl.cur]

\* Nothing is invoked by the step, and the thunks it creates are unevaluated:
\* Pending or Eval, or the Concrete empty set of an auto-vivified key.
NothingInvoked ==
  /\ \A c \in Old : evals'[c] = evals[c]
  /\ \A c \in New :
       /\ evals'[c] = 0
       /\ \/ cells'[c].st \in {"Pending", "Eval"}
          \/ WalkOnAbsent /\ cells'[c].st = "Concrete"

\* An expression or closure is invoked by a force only.
OnlyForceInvokes == (\E c \in Old : evals'[c] # evals[c]) => ctl.m = "force"

UnusedBindings ==
  /\ RootIs("PLetThrow", Ok(IntV(1)))
  /\ RootIs("PLetInf", Ok(IntV(1)))

LetSelfX == Node(Node(Programs.PLetSelf).entries[1]).value

\* C3 (infinite recursion): a force that finds its thunk Resolving returns at
\* once the error InfiniteRecursion with two labels, the span the thunk was
\* defined with and the span of the caller, and invokes nothing; for
\* `let x = x; in x` both labels are the `x` of the binding.
InfiniteRecursionDetected ==
  /\ [][(ctl.m = "force" /\ cells[ctl.cell].st = "Resolving") =>
          /\ ctl' = Return(Err("InfiniteRecursion", <<cells[ctl.cell].bt, ctl.bt>>))
          /\ Len(ctl'.res.labels) = 2
          /\ cells' = cells /\ evals' = evals /\ stack' = stack]_vars
  /\ [](RootIs("PLetSelf", Err("InfiniteRecursion", <<LetSelfX, LetSelfX>>)))

\* `let x = x; in x` has failed with InfiniteRecursion.
InfiniteRecursionSeen ==
  /\ prog = "PLetSelf" /\ Returned
  /\ ~rootRes[1].ok /\ rootRes[1].msg = "InfiniteRecursion"
  /\ Node(LetSelfX) = [k |-> "Ident", name |-> "x"]

\* The `a` of the outer body in `let a = 1; in (let a = 2; in a) <op> a` and in
\* `let a = 1; in [ (let a = 2; in a) a ]`.
OuterA ==
  { Node(Node(Programs.PShadowAdd).body).rhs,
    Node(Node(Programs.PShadowEq).body).rhs,
    Node(Node(Programs.PShadowList).body).items[2] }

\* The thunk is that of a binding `a = 1`.
BoundToOne(c) ==
  \/ cells[c] = Concrete(IntV(1))
  \/ /\ cells[c].st = "Pending"
     /\ Node(cells[c].expr) = [k |-> "Int", v |-> 1]

\* C4 (scope isolation): a lookup of `a` in the body of the outer `let a = 1`
\* finds the outer binding, also after an inner `let a = 2; in a` was evaluated
\* in that body.
ScopeIsolation ==
  (ctl.m = "eval" /\ ctl.node \in OuterA) =>
    LET c == get_variable(ctl.scope, "a")
    IN c # 0 /\ BoundToOne(c)

\* The steps of a let-in that insert its entries.
LetInInserting == ctl.m \in {"entries", "wwalk"} /\ Node(ctl.node).k = "LetIn"

\* C5 (no mutation after construction): once the expression that built an
\* attribute set has returned, no step adds, removes or rebinds a key of it; in
\* particular no let-in does, wherever it is evaluated (such as in the body of a
\* `with` whose namespace is the set).
BuiltSetsFrozen ==
  [][LetInInserting => \A s \in built : sets'[s] = sets[s]]_vars

\* C6 (recursive attribute set): the bindings of a rec set see each other in
\* any order: `rec { a = 1; b = a; }.b` and `rec { b = a; a = 1; }.b` are 1 and
\* `rec { a = 1; b = a + 1; }.b` is 2.
RecAttrSet ==
  /\ RootIs("PRecAB", Ok(IntV(1)))
  /\ RootIs("PRecBA", Ok(IntV(1)))
  /\ RootIs("PRecAdd", Ok(IntV(2)))

\* C7 (inherit): `inherit a;` in a let-in or a rec set binds a to the a of the
\* enclosing scope: `let a = 1; in (let inherit a; in a)` and
\* `let a = 1; in rec { inherit a; }.a` are 1.
InheritFromEnclosing ==
  /\ RootIs("PLetInherit", Ok(IntV(1)))
  /\ RootIs("PRecInherit", Ok(IntV(1)))

\* C8 (structural equality): `{ a = 1; } == { a = 1; }` and `[ 1 ] == [ 1 ]`
\* are true and `{ a = 1; } != { a = 1; }` is false, although the operands
\* share no thunk.
StructuralEquality ==
  /\ RootIs("PSetEq", Ok(BoolV(TRUE)))
  /\ RootIs("PListEq", Ok(BoolV(TRUE)))
  /\ RootIs("PSetNe", Ok(BoolV(FALSE)))

\* The application ends with an error value of the given kind.
FailsWith(p, msg) ==
  prog = p =>
    /\ ~Aborted
    /\ Returned => (~rootRes[1].ok /\ rootRes[1].msg = msg)

\* C9 (pattern strictness): `({a, b}: a) { a = 1; b = 2; c = 3; }` produces
\* the error value UnusedArgument, and with `...` in the pattern it returns 1.
PatternStrictness ==
  /\ FailsWith("PPatExtra", "UnusedArgument")
  /\ RootIs("PPatEllipsis", Ok(IntV(1)))

\* C10 (pattern entry binding): an entry is bound to the argument's thunk of
\* its key, else to its default evaluated where all parameters of the pattern
\* are visible, else the application produces the error value
\* MissingRequiredArgument: `({a ? 10, b}: a) { b = 5; }` is 10,
\* `({a ? b, b}: a) { b = 5; }` is 5 and `({a, b}: a) { b = 5; }` fails.
PatternEntryBinding ==
  /\ RootIs("PPatDefault", Ok(IntV(10)))
  /\ RootIs("PPatDefaultSibling", Ok(IntV(5)))
  /\ FailsWith("PPatMissing", "MissingRequiredArgument")

\* The left operand of `&&`, `||` or `->` has just returned a Bool.
AtLogicalLhs ==
  /\ Returning("BinLhs") /\ ctl.res.ok /\ ctl.res.val.k = "Bool"
  /\ Node(Top.node).op \in {"And", "Or", "Implication"}

\* The left operand alone decides the result.
Decided(op, l) == IF op = "Or" THEN l ELSE ~l

\* C11 (short-circuit): `&&` on false, `||` on true and `->` on false return
\* false, true and true and the right operand is not evaluated; otherwise the
\* right operand is evaluated in place of the operator, so that its outcome is
\* the result.
ShortCircuit ==
  /\ [][AtLogicalLhs =>
          LET operator == Node(Top.node).op
              left == ctl.res.val.v
          IN /\ stack' = Tail(stack)
             /\ cells' = cells /\ evals' = evals /\ asks' = asks
             /\ IF Decided(operator, left)
                  THEN ctl' = Return(Ok(BoolV(operator \in {"Or", "Implication"})))
                  ELSE ctl' = CallEval(Top.scope, Top.bt, Node(Top.node).rhs)]_vars
  /\ [](/\ RootIs("PAndFalse", Ok(BoolV(FALSE)))
        /\ RootIs("POrTrue", Ok(BoolV(TRUE)))
        /\ RootIs("PImplFalse", Ok(BoolV(TRUE)))
        /\ RootIs("PAndTrue", Ok(BoolV(FALSE)))
        /\ RootIs("POrFalse", Ok(BoolV(TRUE)))
        /\ RootIs("PImplTrue", Ok(BoolV(FALSE)))
        /\ RootIs("PAndTrueThrow", Err("Throw", <<>>)))

\* `false && throw "x"` has returned false.
ShortCircuitSeen ==
  /\ prog = "PAndFalse" /\ Returned
  /\ rootRes = <<Ok(BoolV(FALSE))>>

\* The right operand of `//` has just returned an attribute set.
AtUpdate ==
  /\ Returning("BinRhs") /\ Node(Top.node).op = "Update"
  /\ ctl.res.ok /\ ctl.res.val.k = "AttrSet"

\* C12 (update): `l // r` returns a new set whose keys are those of l and of r,
\* each key of r bound to r's thunk and each other key to l's thunk; no existing
\* set is changed and no thunk is forced or evaluated; so the update is shallow.
UpdateIsUnion ==
  /\ [][AtUpdate =>
          LET left == Top.lhs
              right == sets[ctl.res.val.id]
              result == Len(sets) + 1
          IN /\ ctl' = Return(Ok(SetV(result)))
             /\ DOMAIN sets' = 1..result
             /\ DOMAIN sets'[result] = (DOMAIN left) \cup (DOMAIN right)
             /\ \A x \in DOMAIN right : sets'[result][x] = right[x]
             /\ \A x \in (DOMAIN left) \ (DOMAIN right) : sets'[result][x] = left[x]
             /\ \A s \in DOMAIN sets : sets'[s] = sets[s]
             /\ cells' = cells /\ evals' = evals /\ asks' = asks]_vars
  /\ [](/\ RootIs("PUpdateSel", Ok(IntV(3)))
        /\ RootIs("PUpdateThrow", Ok(BoolV(FALSE)))
        /\ (prog = "PUpdateShallow" /\ Returned) =>
              (~rootRes[1].ok /\ rootRes[1].msg = "AttributeMissing")
        /\ (prog = "PUpdate" /\ Returned) =>
              (rootRes[1].ok /\ DOMAIN sets[rootRes[1].val.id] = {"a", "b", "c"}))

\* `{ a = 1; b = 2; } // { b = 3; c = 4; }` has returned a set of three keys,
\* none of them forced.
UpdateSeen ==
  /\ prog = "PUpdate" /\ Returned /\ rootRes[1].ok
  /\ DOMAIN sets[rootRes[1].val.id] = {"a", "b", "c"}
  /\ \A x \in {"a", "b", "c"} : cells[sets[rootRes[1].val.id][x]].st = "Pending"

\* The namespace of a `with` has just returned an attribute set.
AtWith ==
  /\ Returning("With") /\ ctl.res.ok /\ ctl.res.val.k = "AttrSet"

\* The names the sample programs look up.
WithNames == {"a", "b", "s", "true"}

\* C13 (with): the body of `with E; body` runs in a new scope whose variables
\* are the set of E and whose parent is the enclosing scope, so a name is found
\* in E first and else along the enclosing chain; the enclosing scopes are left
\* as they were, so after the `with` the names of E are not visible.
WithScope ==
  /\ [][AtWith =>
          \E inner \in DOMAIN scopes' :
            /\ inner = Len(scopes) + 1
            /\ DOMAIN scopes' = 1..inner
            /\ \A s \in DOMAIN scopes : scopes'[s] = scopes[s]
            /\ sets' = sets /\ cells' = cells
            /\ stack' = Tail(stack)
            /\ ctl' = CallEval(inner, Top.bt, Node(Top.node).body)
            /\ \A x \in WithNames :
                 get_variable(inner, x)' =
                   IF x \in DOMAIN sets[ctl.res.val.id]
                     THEN sets[ctl.res.val.id][x]
                     ELSE get_variable(Top.scope, x)]_vars
  /\ [](/\ RootIs("PWith", Ok(IntV(1)))
        /\ RootIs("PWithOuter", Ok(IntV(2)))
        /\ RootIs("PWithShadow", Ok(IntV(1)))
        /\ (prog = "PWithAfter" /\ Returned) =>
              (~rootRes[1].ok /\ rootRes[1].msg = "VariableNotFound")
        /\ RootIs("PWithAfterOuter", Ok(BoolV(FALSE))))

\* `let a = 2; in with { a = 1; }; a` has returned 1.
WithSeen == prog = "PWithShadow" /\ Returned /\ rootRes = <<Ok(IntV(1))>>

\* The entry about to be inserted is an `inherit (E) ...;`.
AtInheritFrom ==
  /\ ctl.m = "entries" /\ ctl.idx <= Len(Node(ctl.node).entries)
  /\ Node(Node(ctl.node).entries[ctl.idx]).k = "Inherit"
  /\ Node(Node(ctl.node).entries[ctl.idx]).from # 0

\* The thunk is the unevaluated `from` of an inherit.
IsFromThunk(c) == cells[c].st = "Pending" /\ Node(cells[c].bt).k = "InheritFrom"

\* C14 (inherit from): `inherit (E) a b;` makes one unevaluated thunk of E that
\* the thunks of all its names share, and evaluates nothing; the thunk of E is
\* forced only by the thunk of an inherited name, and is evaluated at most once;
\* a name then yields the forced thunk of its key in the set of E, or the error
\* value AttributeMissing when E has no such key.
InheritFromShared ==
  /\ [][AtInheritFrom =>
          LET entry == Node(Node(ctl.node).entries[ctl.idx])
              from == Len(cells) + 1
              n == Len(entry.attrs)
          IN /\ Len(cells') = Len(cells) + 1 + n
             /\ cells'[from] = Pending(entry.from, ctl.scope, Node(entry.from).expr)
             /\ \A i \in 1..n :
                  /\ cells'[from + i].st = "Eval"
                  /\ cells'[from + i].fn.from = from
                  /\ cells'[from + i].fn.attr = entry.attrs[i]
             /\ \A c \in Old : cells'[c] = cells[c]
             /\ \A c \in DOMAIN cells' : evals'[c] = IF c \in Old THEN evals[c] ELSE 0
             /\ asks' = asks \o [i \in 1..(n + 1) |-> 0]]_vars
  /\ [][(ctl.m = "force" /\ IsFromThunk(ctl.cell)) =>
          (stack # <<>> /\ Top.f = "InheritFrom" /\ Top.fn.from = ctl.cell)]_vars
  /\ [][(Returning("InheritFrom") /\ ctl.res.ok /\ ctl.res.val.k = "AttrSet") =>
          LET key == Node(Top.fn.attr).name
              from == sets[ctl.res.val.id]
          IN /\ HeapSame
             /\ IF key \in DOMAIN from
                  THEN ctl' = CallResolve(from[key], Top.bt)
                  ELSE /\ ctl'.m = "ret" /\ ~ctl'.res.ok
                       /\ ctl'.res.msg = "AttributeMissing"]_vars
  /\ [](/\ \A c \in DOMAIN cells : evals[c] <= 1
        /\ RootIs("PInhFromTwo", Ok(BoolV(FALSE)))
        /\ (prog = "PInhFromTwo" /\ Returned) => Cardinality(built) = 2
        /\ (prog = "PInhFromMissing" /\ Returned) =>
              (~rootRes[1].ok /\ rootRes[1].msg = "AttributeMissing")
        /\ RootIs("PInhFromUnused", Ok(IntV(1)))
        /\ (prog = "PInhFromUnused" /\ Returned) =>
              \E c \in DOMAIN cells : IsFromThunk(c) /\ evals[c] = 0 /\ asks[c] = 0)

\* Both names of `inherit ({ a = 1; b = 2; }) a b;` were forced and the thunk of
\* the `from` was evaluated once.
InheritFromSeen ==
  /\ prog = "PInhFromTwo" /\ Returned /\ rootRes = <<Ok(BoolV(FALSE))>>
  /\ \E c \in DOMAIN cells, s \in DOMAIN sets :
       /\ sets[s] = [x \in {"a", "b"} |-> IF x = "a" THEN c + 1 ELSE c + 2]
       /\ cells[c].st = "Concrete" /\ cells[c].val.k = "AttrSet" /\ cells[c].val.id # s
       /\ evals[c] = 1 /\ asks[c] = 2

\* C15 (select with default): when the read-walk succeeds the result is the
\* forced final thunk and the default is not evaluated; when it fails and
\* there is a default the result is the value of the default: a missing key, an
\* intermediate value that is not a set and an intermediate thunk that fails
\* all give `or 2` the value 2; without default the error of the walk is
\* returned.
SelectDefault ==
  /\ RootIs("PSelDefaultOk", Ok(IntV(1)))
  /\ prog \in {"PSelDefaultMissing", "PSelDefaultNonSet", "PSelDefaultErr"} =>
       /\ ~Aborted
       /\ Returned => rootRes = <<Ok(IntV(2))>>
  /\ FailsWith("PSelMissing", "AttributeMissing")

\* C16 (has attribute): `e ? path` is true when the read-walk succeeds, without
\* forcing the final thunk, and false for every failure of the walk: a
\* missing key, an intermediate value that is not a set, an intermediate thunk
\* that fails; the walk never makes it fail or abort.
HasAttrTotal ==
  /\ RootIs("PHasYes", Ok(BoolV(TRUE)))
  /\ RootIs("PHasLazy", Ok(BoolV(TRUE)))
  /\ prog \in {"PHasMissing", "PHasNonSet", "PHasInnerErr"} =>
       /\ ~Aborted
       /\ Returned => rootRes = <<Ok(BoolV(FALSE))>>

\* The write-walk has forced the thunk of an existing key and found a set.
WalkReturned ==
  /\ Returning("WriteWalk") /\ ctl.res.ok /\ ctl.res.val.k = "AttrSet"

\* C17 (auto-vivification): at a non-final segment of an attribute path the
\* write-walk binds a missing key to a new empty set and goes on inside it,
\* leaving the other keys as they are; an existing key is never rebound: its
\* thunk is forced and the walk goes on inside the set it holds.  So the
\* entries `a.b.c = 1; a.b.d = 2;` write into one set, and
\* `{ a.b.c = 1; a.b.d = 2; }.a.b` has exactly the keys c and d.
AutoVivification ==
  /\ [][WalkOnAbsent =>
          \E fresh \in DOMAIN sets' :
            /\ fresh = Len(sets) + 1
            /\ sets'[fresh] = EmptyMap
            /\ DOMAIN sets'[ctl.cur] = (DOMAIN sets[ctl.cur]) \cup {WalkKey}
            /\ cells'[sets'[ctl.cur][WalkKey]] = Concrete(SetV(fresh))
            /\ \A x \in DOMAIN sets[ctl.cur] : sets'[ctl.cur][x] = sets[ctl.cur][x]
            /\ \A s \in (DOMAIN sets) \ {ctl.cur} : sets'[s] = sets[s]
            /\ ctl'.m = "wwalk" /\ ctl'.cur = fresh /\ ctl'.seg = ctl.seg + 1]_vars
  /\ [][WalkOnExisting =>
          /\ sets' = sets /\ cells' = cells
          /\ ctl' = CallResolve(sets[ctl.cur][WalkKey], EntryBt)]_vars
  /\ [][WalkReturned =>
          /\ sets' = sets /\ cells' = cells
          /\ ctl'.m = "wwalk" /\ ctl'.cur = ctl.res.val.id
          /\ ctl'.seg = Top.ctl.seg + 1]_vars
  /\ [](/\ (prog = "PVivifyShared" /\ Returned) =>
              /\ rootRes[1].ok /\ rootRes[1].val.k = "AttrSet"
              /\ DOMAIN sets[rootRes[1].val.id] = {"c", "d"}
        /\ (prog = "PPathVivify" /\ Returned) =>
              /\ rootRes[1].ok
              /\ DOMAIN sets[rootRes[1].val.id] = {"a"}
              /\ \E s \in DOMAIN sets :
                   /\ cells[sets[rootRes[1].val.id].a] = Concrete(SetV(s))
                   /\ DOMAIN sets[s] = {"b", "c"})

\* `{ a.b.c = 1; a.b.d = 2; }.a.b` has returned the set of the keys c and d.
AutoVivificationSeen ==
  /\ prog = "PVivifyShared" /\ Returned /\ rootRes[1].ok
  /\ DOMAIN sets[rootRes[1].val.id] = {"c", "d"}

\* The programs that apply an operator to an operand of the wrong kind.
Mistyped ==
  {"PAndInt", "POrInt", "PImplInt", "PConcatInt", "PUpdateInt", "PAddStrInt",
   "PLessStr", "PNotInt", "PIfInt", "PAssertInt"}

\* C18 (type errors): `&&`, `||`, `->`, `++`, `//`, `+`, `<`, `!`, `if` and
\* `assert` on an operand of the wrong kind end with the error value TypeError
\* that carries the spans of the operands; the evaluator never aborts.
TypeErrors ==
  prog \in Mistyped =>
    /\ ~Aborted
    /\ Returned => (~rootRes[1].ok /\ rootRes[1].msg = "TypeError" /\ rootRes[1].labels # <<>>)

\* C19 (integer arithmetic): `+`, `-`, `*` and `/` on two Ints return the Int
\* result and unary `-` on an Int its negation: `let x = 1; y = x + 1; in y` is
\* 2, `3 - 1` is 2, `2 * 3` is 6, `6 / 2` is 3 and `-1` is -1.
IntegerArithmetic ==
  /\ RootIs("PLetAdd", Ok(IntV(2)))
  /\ RootIs("PSub", Ok(IntV(2)))
  /\ RootIs("PMul", Ok(IntV(6)))
  /\ RootIs("PDiv", Ok(IntV(3)))
  /\ RootIs("PNeg", Ok(IntV(-1)))

\* The argument `(throw "x")` of `map (throw "x")`.
MapArgument == {Node(Programs.PMapPartial).arg, Node(Node(Programs.PMapPartialEq).lhs).arg}

\* C20 (builtin argument): the application of a builtin hands the builtin the
\* argument expression as written, with the scope and backtrace of the caller,
\* and neither forces nor evaluates anything; an argument the builtin does not
\* force, as the first argument of `map (throw "x")`, is never evaluated.
BuiltinArgumentUnevaluated ==
  /\ [][Applying("Builtin") =>
          /\ ctl'.m = "builtin" /\ ctl'.name = ctl.res.val.name
          /\ ctl'.argument = Node(Top.node).arg
          /\ ctl'.scope = Top.scope /\ ctl'.bt = Top.bt
          /\ stack' = Tail(stack)
          /\ HeapSame]_vars
  /\ [](/\ ~(ctl.m = "eval" /\ ctl.node \in MapArgument)
        /\ (prog = "PMapPartial" /\ Returned) =>
              /\ rootRes[1].ok /\ rootRes[1].val.k = "Builtin"
              /\ \A c \in DOMAIN cells : evals[c] = 0
        /\ RootIs("PMapPartialEq", Ok(BoolV(FALSE))))

\* `map (throw "x")` has returned a builtin that holds the argument, and
\* nothing was evaluated.
BuiltinArgumentSeen ==
  /\ prog = "PMapPartial" /\ Returned /\ rootRes[1].ok
  /\ rootRes[1].val.k = "Builtin" /\ Len(rootRes[1].val.params) = 1
  /\ rootRes[1].val.params[1].argument \in MapArgument
  /\ \A c \in DOMAIN cells : evals[c] = 0

\* The force of the thunk on top of the stack has just returned.
ForceReturned == Returning("Resolve")

\* C24 (thunk state machine): a cell changes only from Pending or Eval to
\* Resolving, when a force of it starts, and from Resolving to Concrete, when
\* that force succeeds; a force that fails leaves the cell Resolving; a Concrete
\* cell never changes, and no cell goes back to Pending or Eval.
ThunkStateMachine ==
  /\ [][\A c \in Old :
          \/ cells'[c] = cells[c]
          \/ /\ cells[c].st \in {"Pending", "Eval"}
             /\ cells'[c] = Resolving(cells[c].bt)
             /\ ctl.m = "force" /\ ctl.cell = c
          \/ /\ cells[c].st = "Resolving"
             /\ ForceReturned /\ Top.cell = c /\ ctl.res.ok
             /\ cells'[c] = Concrete(ctl.res.val)]_vars
  /\ [][(ctl.m = "force" /\ cells[ctl.cell].st \in {"Pending", "Eval"}) =>
          cells'[ctl.cell].st = "Resolving"]_vars
  /\ [][ForceReturned =>
          /\ cells[Top.cell].st = "Resolving"
          /\ cells'[Top.cell].st = IF ctl.res.ok THEN "Concrete" ELSE "Resolving"]_vars

\* `let s = { a = throw "x"; }; in (s.a.b or 2) == s.a` has returned: the
\* thunk of a, whose force failed, is Resolving, and the thunk of s, forced with
\* success, is Concrete.
ThunkStateMachineSeen ==
  /\ prog = "PFailedDefault" /\ Returned
  /\ \E c \in DOMAIN cells : cells[c].st = "Resolving" /\ evals[c] = 1
  /\ \E c \in DOMAIN cells : cells[c].st = "Concrete" /\ evals[c] = 1

\* A force of the cell is running.
InForce(c) == \E i \in 1..Len(stack) : stack[i].f = "Resolve" /\ stack[i].cell = c

\* The cell was left Resolving by a force that has failed.
FailedCell(c) == cells[c].st = "Resolving" /\ ~InForce(c)

ClosureOnce ==
  /\ [](/\ \A c \in DOMAIN cells : cells[c].st = "Eval" => take(c) = <<cells[c].fn>>
        /\ \A c \in DOMAIN cells : evals[c] <= 1
        /\ Aborted => ctl.why # "Eval cannot be called twice"
        /\ (prog = "PInheritReentrant" /\ Returned) =>
              (~rootRes[1].ok /\ rootRes[1].msg = "InfiniteRecursion")
        /\ RootIs("PInheritTwice", Ok(BoolV(TRUE))))
  /\ [][ctl'.m = "closure" =>
          /\ ctl.m = "force" /\ cells[ctl.cell].st = "Eval"
          /\ ctl'.fn = cells[ctl.cell].fn
          /\ evals[ctl.cell] = 0 /\ evals'[ctl.cell] = 1
          /\ cells'[ctl.cell].st = "Resolving"]_vars

\* `rec { inherit (s) a; s = { a = a; }; }.a` has returned: the thunk of the
\* inherited a was forced from inside its own closure, and the closure ran once.
ClosureOnceSeen ==
  /\ prog = "PInheritReentrant" /\ Returned
  /\ \E c \in DOMAIN cells :
       /\ cells[c].st = "Resolving" /\ Node(cells[c].bt).k = "InheritFrom"
       /\ asks[c] = 2 /\ evals[c] = 1

\* A call of resolve_set is waiting for thunk c.
InDeep(c) ==
  \E i \in 1..Len(stack) : stack[i].f \in {"ResolveSet", "ResolveSetEach"} /\ stack[i].cell = c

\* C23 (deep force terminates): a recursive resolve_set never runs out of
\* stack, not even on a value that contains itself, because it never starts on
\* a thunk that a waiting resolve_set is already working on, and it does not go
\* into the elements of a thunk that was Concrete when it was reached.
DeepForceTerminates ==
  /\ [](Aborted => ctl.why # "stack overflow")
  /\ [](ctl.m = "deep" => ~InDeep(ctl.cell))
  /\ [][(ctl.m = "deep" /\ cells[ctl.cell].st = "Concrete") => ctl'.m = "ret"]_vars

\* A call of resolve_set is about to return its value.
DeepReturning == ctl.m = "each" /\ Top.values = <<>>

\* C22 (deep force is complete): when resolve_set returns a value, the thunk it
\* was called on is Concrete and so is every element of its value; when it was
\* recursive, every thunk that can be reached from it is Concrete.
DeepForceComplete ==
  DeepReturning =>
    /\ cells[Top.cell].st = "Concrete"
    /\ \A c \in VarsOf(cells[Top.cell].val) : cells[c].st = "Concrete"
    /\ Top.recursive => \A c \in Reach({Top.cell}, {}) : cells[c].st = "Concrete"

\* The thunk that attribute v of the result of the host's n-th call holds.
CallResultV(n) == sets[rootRes[n + 1].val.id]["v"]

\* C25 (a scope per application): applying a lambda, through Apply or through
\* NixLambda::call, binds the parameters in a new scope and leaves the variables
\* of every scope that exists alone; the thunks of the result of one call of
\* `x: { v = x; }` keep seeing the argument of that call after the next call.
FreshScopePerApplication ==
  /\ [][(Applying("Lambda") \/ (ctl.m = "done" /\ Len(cells') > Len(cells))) =>
          \A s \in DOMAIN scopes : sets'[scopes[s].vars] = sets[scopes[s].vars]]_vars
  /\ [](prog = "PLamSet" =>
          \A n \in 1..(Len(rootRes) - 1) :
            (rootRes[n + 1].ok /\ cells[CallResultV(n)].st = "Concrete") =>
               cells[CallResultV(n)].val = HostArgument(n))
  /\ [](RootIs("PApplyTwice", Ok(BoolV(TRUE))))

\* The scopes from a scope up to the outermost one.
RECURSIVE Chain(_)
Chain(scope) ==
  IF scopes[scope].parent = 0 THEN <<scope>> ELSE <<scope>> \o Chain(scopes[scope].parent)

\* The binding of a name in the nearest scope of the chain that binds it.
Nearest(scope, varname) ==
  LET chain == Chain(scope)
      binders == {i \in 1..Len(chain) : varname \in DOMAIN sets[scopes[chain[i]].vars]}
  IN IF binders = {}
       THEN 0
       ELSE sets[scopes[chain[CHOOSE i \in binders : \A j \in binders : i <= j]].vars][varname]

\* The names that are bound somewhere, and one that is bound nowhere.
BoundNames == UNION {DOMAIN sets[i] : i \in DOMAIN sets} \cup {"nowhere"}

\* The host's call binds an identifier parameter with set_variable.
HostBinds ==
  /\ ctl.m = "done" /\ Len(cells') > Len(cells)
  /\ Node(rootRes[1].val.node).param.pk = "Ident"

\* C26 (scope operations): set_variable changes the variables of the scope it
\* is called on and of no other scope, and returns what the name was bound to
\* in that scope; get_variable returns the binding of the nearest scope on the
\* parent chain that binds the name, and None (0) when none does.
ScopeOperations ==
  /\ [][HostBinds =>
          LET scope == rootRes[1].val.scope
              varname == Node(rootRes[1].val.node).param.name
          IN /\ \A s \in DOMAIN scopes \ {scope} : sets'[scopes[s].vars] = sets[scopes[s].vars]
             /\ sets'[scopes[scope].vars][varname] = Len(cells')
             /\ displaced(scope, varname) =
                  IF varname \in DOMAIN sets[scopes[scope].vars]
                    THEN Nearest(scope, varname) ELSE 0]_vars
  /\ [](\A s \in DOMAIN scopes : \A x \in BoundNames : get_variable(s, x) = Nearest(s, x))

\* The host has called the lambda of `let s = { a = 1; }; in with s; with s; x: a`
\* twice: x is bound in the scope of the lambda, to the argument of the second
\* call, and in no scope above it, and the body found a in the with scope.
ScopeOperationsSeen ==
  /\ prog = "PWithLam" /\ Len(rootRes) = 3
  /\ rootRes[3] = Ok(IntV(1))
  /\ LET scope == rootRes[1].val.scope
     IN /\ cells[get_variable(scope, "x")] = Concrete(HostArgument(2))
        /\ get_variable(scopes[scope].parent, "x") = 0
        /\ scopes[scopes[scope].parent].vars = scopes[scopes[scopes[scope].parent].parent].vars

\* The thunk of the n-th element of the list the root expression returned.
Element(n) == rootRes[1].val.items[n]

\* C27 (force order): the outcome of forcing a thunk does not depend on the
\* thunks forced before it.  The second element of `[ (let y = 1; in y) y ]`,
\* forced before the first, fails with VariableNotFound, so it fails with
\* VariableNotFound whenever it is forced and never gets a value; a thunk that
\* has not been forced is not changed by the force of another one: what y is
\* bound to in the scope of the list (scope 2, that of the root expression)
\* stays as it is.
ForceOrderIndependent ==
  /\ []((prog = "PListLet" /\ Returned) =>
          /\ (ForceReturned /\ Top.cell = Element(2) /\ asks[Element(1)] = 0) =>
                (~ctl.res.ok /\ ctl.res.msg = "VariableNotFound")
          /\ (ForceReturned /\ Top.cell = Element(2) /\ asks[Element(1)] > 0) =>
                (~ctl.res.ok /\ ctl.res.msg = "VariableNotFound")
          /\ cells[Element(2)].st # "Concrete")
  /\ [][(prog = "PListLet" /\ Returned /\ Returned') =>
          get_variable(2, "y")' = get_variable(2, "y")]_vars

\* The run of a builtin is at its body.
AtBody == ctl.m = "body"

\* The triple an application hands to the run of a builtin.
Supplied == [bt |-> ctl.bt, scope |-> ctl.scope, argument |-> ctl.argument]

HoldsBuiltin(c) == cells[c].st = "Concrete" /\ cells[c].val.k = "Builtin"

\* The thunks of callbacks that map has made.
CallbackThunks ==
  {c \in DOMAIN cells : cells[c].st = "Eval" /\ cells[c].fn.fk = "Callback"}

\* C30 (partial application is pure): a thunk that holds a builtin keeps
\* holding that very builtin whatever is applied to it; a partial application
\* changes no thunk, no set and no scope and forces nothing.  In
\* `let m = map (x: x + 1); in [ (m [ 1 ]) (m [ 2 (throw "x") ]) ]` m keeps its
\* one triple, both applications of m give the body the lambda of that triple
\* and their own list, and the list of each result is as long as its own
\* argument.
PartialApplicationPure ==
  /\ [][\A c \in DOMAIN cells : HoldsBuiltin(c) => cells'[c] = cells[c]]_vars
  /\ [][(ctl.m = "builtin" /\ Len(ctl.params) + 1 < Arity[ctl.name]) =>
          UNCHANGED <<cells, sets, scopes, evals, asks>>]_vars
  /\ []((prog = "PMapShared" /\ AtBody) =>
          /\ HoldsBuiltin(get_variable(2, "m"))
          /\ Len(cells[get_variable(2, "m")].val.params) = 1
          /\ ctl.args[1].k = "Lambda"
          /\ Node(ctl.args[1].node).k = "Lambda"
          /\ Len(ctl.args[2].items) \in {1, 2})
  /\ []((prog = "PMapShared" /\ Returned) =>
          \A n \in 1..2 :
            cells[Element(n)].st = "Concrete" =>
              /\ Len(cells[Element(n)].val.items) = n
              /\ \A i \in 1..n :
                   LET c == cells[Element(n)].val.items[i]
                   IN cells[c].st = "Concrete" => cells[c].val = IntV(n + 1))

\* The second application of m is at the body of map when the first one has
\* made its callback thunk already (or the other way round).
PartialApplicationSeen ==
  /\ prog = "PMapShared" /\ AtBody
  /\ \E c \in DOMAIN cells : \/ c \in CallbackThunks
                             \/ cells[c].st = "Concrete" /\ cells[c].val.k = "List"
                                /\ c \in {Element(1), Element(2)}
  /\ Len(cells[get_variable(2, "m")].val.params) = 1

=============================================================================
